---------------------------- MODULE Spec2Model ----------------------------
(***************************************************************************)
(* The Numbers spreadsheet of NorthOffice (src/unnamed/part_000): cell     *)
(* address codec, cell store, formula evaluator, range aggregator and the  *)
(* recalculation pass, as a state machine over the handlers of the page.   *)
(*                                                                         *)
(* Text is a sequence of one-character strings, so that the conversions of *)
(* the program (toUpperCase, the regular expressions, parseFloat, the      *)
(* number-to-string conversion of String.replace, the expression handed to *)
(* Function) are computed character by character.                          *)
(*                                                                         *)
(* A JavaScript number is a sign, a numerator and a denominator:           *)
(*   finite   [sg, n, d]  d >= 1, n and d coprime (the value sg*n/d);      *)
(*            zero keeps its sign, as an IEEE double does                  *)
(*   infinite [sg, 1, 0]                                                   *)
(*   NaN      [1, 0, 0]                                                    *)
(* The arithmetic is exact: the model's inputs keep every number within    *)
(* the doubles that are exact.                                             *)
(***************************************************************************)
EXTENDS Integers, Sequences, FiniteSets, TLC

(***************************************************************************)
(* Characters                                                              *)
(***************************************************************************)
Digits == <<"0", "1", "2", "3", "4", "5", "6", "7", "8", "9">>

UpperCase == <<"A", "B", "C", "D", "E", "F", "G", "H", "I", "J", "K", "L", "M",
               "N", "O", "P", "Q", "R", "S", "T", "U", "V", "W", "X", "Y", "Z">>

LowerCase == <<"a", "b", "c", "d", "e", "f", "g", "h", "i", "j", "k", "l", "m",
               "n", "o", "p", "q", "r", "s", "t", "u", "v", "w", "x", "y", "z">>

Range(f) == {f[i] : i \in DOMAIN f}

IsDigit(c) == c \in Range(Digits)

IsUpper(c) == c \in Range(UpperCase)

IsLower(c) == c \in Range(LowerCase)

IndexOf(seq, c) == CHOOSE i \in DOMAIN seq : seq[i] = c

DigitVal(c) == IndexOf(Digits, c) - 1

\* String.prototype.charCodeAt for an upper-case letter
CharCode(c) == 64 + IndexOf(UpperCase, c)

\* String.fromCharCode for the code of an upper-case letter
FromCharCode(k) == UpperCase[k - 64]

Tail2(s, k) == SubSeq(s, k, Len(s))

StartsWith(s, p) == Len(s) >= Len(p) /\ SubSeq(s, 1, Len(p)) = p

\* String.prototype.toUpperCase
ToUpperCase(s) ==
    [i \in 1..Len(s) |-> IF IsLower(s[i]) THEN UpperCase[IndexOf(LowerCase, s[i])] ELSE s[i]]

\* the decimal digits of a natural number
RECURSIVE NatToStr(_)
NatToStr(n) == IF n < 10 THEN <<Digits[n + 1]>>
               ELSE NatToStr(n \div 10) \o <<Digits[(n % 10) + 1]>>

\* the value of a run of decimal digits
RECURSIVE DigitsToNat(_)
DigitsToNat(s) == IF s = <<>> THEN 0
                  ELSE 10 * DigitsToNat(SubSeq(s, 1, Len(s) - 1)) + DigitVal(s[Len(s)])

\* the length of the run of decimal digits of s that starts at position k
RECURSIVE DigitRun(_, _)
DigitRun(s, k) == IF k <= Len(s) /\ IsDigit(s[k]) THEN 1 + DigitRun(s, k + 1) ELSE 0

\* the length of the run of upper-case letters of s that starts at position k
RECURSIVE UpperRun(_, _)
UpperRun(s, k) == IF k <= Len(s) /\ IsUpper(s[k]) THEN 1 + UpperRun(s, k + 1) ELSE 0

\* the length of the run of blanks of s that starts at position k
RECURSIVE BlankRun(_, _)
BlankRun(s, k) == IF k <= Len(s) /\ s[k] = " " THEN 1 + BlankRun(s, k + 1) ELSE 0

(***************************************************************************)
(* Numbers                                                                 *)
(***************************************************************************)
RECURSIVE GCD(_, _)
GCD(a, b) == IF b = 0 THEN a ELSE GCD(b, a % b)

RECURSIVE Pow10(_)
Pow10(k) == IF k = 0 THEN 1 ELSE 10 * Pow10(k - 1)

NaN == [sg |-> 1, n |-> 0, d |-> 0]

Inf(s) == [sg |-> s, n |-> 1, d |-> 0]

\* the fraction n/d over the common divisor g
Reduced(s, n, d, g) == [sg |-> s, n |-> n \div g, d |-> d \div g]

Fin(s, n, d) == IF n = 0 THEN [sg |-> s, n |-> 0, d |-> 1] ELSE Reduced(s, n, d, GCD(n, d))

\* the finite number v/d of a signed numerator
Signed(v, d) == IF v < 0 THEN Fin(-1, -v, d) ELSE Fin(1, v, d)

Int2Num(i) == Signed(i, 1)

IsNaNNum(x) == x.n = 0 /\ x.d = 0

IsInf(x) == x.n = 1 /\ x.d = 0

IsFinite(x) == x.d >= 1

IsZero(x) == x.n = 0 /\ x.d = 1

NumNeg(x) == IF IsNaNNum(x) THEN x ELSE [x EXCEPT !.sg = -x.sg]

\* IEEE addition: exact on the finite values of the model
NumAdd(x, y) ==
    IF IsNaNNum(x) \/ IsNaNNum(y) THEN NaN
    ELSE IF IsInf(x) /\ IsInf(y) THEN (IF x.sg = y.sg THEN x ELSE NaN)
    ELSE IF IsInf(x) THEN x
    ELSE IF IsInf(y) THEN y
    ELSE IF IsZero(x) /\ IsZero(y) THEN Fin(IF x.sg = -1 /\ y.sg = -1 THEN -1 ELSE 1, 0, 1)
    ELSE Signed(x.sg * x.n * y.d + y.sg * y.n * x.d, x.d * y.d)

NumSub(x, y) == NumAdd(x, NumNeg(y))

NumMul(x, y) ==
    IF IsNaNNum(x) \/ IsNaNNum(y) THEN NaN
    ELSE IF (IsInf(x) /\ IsZero(y)) \/ (IsZero(x) /\ IsInf(y)) THEN NaN
    ELSE IF IsInf(x) \/ IsInf(y) THEN Inf(x.sg * y.sg)
    ELSE Fin(x.sg * y.sg, x.n * y.n, x.d * y.d)

NumDiv(x, y) ==
    IF IsNaNNum(x) \/ IsNaNNum(y) THEN NaN
    ELSE IF (IsInf(x) /\ IsInf(y)) \/ (IsZero(x) /\ IsZero(y)) THEN NaN
    ELSE IF IsInf(x) \/ IsZero(y) THEN Inf(x.sg * y.sg)
    ELSE IF IsInf(y) THEN Fin(x.sg * y.sg, 0, 1)
    ELSE Fin(x.sg * y.sg, x.n * y.d, x.d * y.n)

\* x < y on numbers that are not NaN
NumLess(x, y) ==
    IF IsInf(x) /\ IsInf(y) THEN x.sg < y.sg
    ELSE IF IsInf(x) THEN x.sg = -1
    ELSE IF IsInf(y) THEN y.sg = 1
    ELSE x.sg * x.n * y.d < y.sg * y.n * x.d

\* the fraction digits of r/d (r < d) by long division, at most k of them
RECURSIVE FracDigits(_, _, _)
FracDigits(r, d, k) ==
    IF r = 0 \/ k = 0 THEN <<>>
    ELSE <<Digits[((r * 10) \div d) + 1]>> \o FracDigits((r * 10) % d, d, k - 1)

\* Number::toString (radix 10), as String(x) and String.replace apply it to a
\* number: no exponent form, which a double takes from 1e21 on and below 1e-6
NumToStr(x) ==
    IF IsNaNNum(x) THEN <<"N", "a", "N">>
    ELSE IF IsInf(x)
      THEN (IF x.sg = -1 THEN <<"-">> ELSE <<>>) \o <<"I", "n", "f", "i", "n", "i", "t", "y">>
    ELSE IF IsZero(x) THEN <<"0">>
    ELSE (IF x.sg = -1 THEN <<"-">> ELSE <<>>)
         \o NatToStr(x.n \div x.d)
         \o (IF x.n % x.d = 0 THEN <<>> ELSE <<".">> \o FracDigits(x.n % x.d, x.d, 17))

\* the string of an integer, as string concatenation makes it
IntToStr(i) == NumToStr(Int2Num(i))

\* mant * 10^e
Scaled(sg, mant, e) == IF e >= 0 THEN Fin(sg, mant * Pow10(e), 1) ELSE Fin(sg, mant, Pow10(-e))

\* the exponent part at position k of s (k is past the mantissa): [len, ex]
ExpDigits(s, sgn, ep, ed) ==
    IF ed = 0 THEN [len |-> 0, ex |-> 0]
    ELSE [len |-> ed, ex |-> sgn * DigitsToNat(SubSeq(s, ep, ep + ed - 1))]

ExpSigned(s, k, es) ==
    ExpDigits(s, IF es /\ s[k + 1] = "-" THEN -1 ELSE 1,
              IF es THEN k + 2 ELSE k + 1,
              DigitRun(s, IF es THEN k + 2 ELSE k + 1))

\* [len, ex]: len counts the digits of the exponent, 0 when there is no exponent
ExponentPart(s, k) ==
    IF k <= Len(s) /\ s[k] \in {"e", "E"}
      THEN ExpSigned(s, k, k + 1 <= Len(s) /\ s[k + 1] \in {"+", "-"})
      ELSE [len |-> 0, ex |-> 0]

\* the decimal literal of a integer digits and, after a point, b fraction digits
Mantissa(u, a, b) == DigitsToNat(SubSeq(u, 1, a) \o SubSeq(u, a + 2, a + 1 + b))

DecimalAB(u, sg, a, b) ==
    IF a + b = 0 THEN NaN
    ELSE Scaled(sg, Mantissa(u, a, b),
                ExponentPart(u, (IF b > 0 \/ (a + 1 <= Len(u) /\ u[a + 1] = ".") THEN a + 1 + b ELSE a) + 1).ex - b)

DecimalA(u, sg, a) ==
    DecimalAB(u, sg, a, IF a + 1 <= Len(u) /\ u[a + 1] = "." THEN DigitRun(u, a + 2) ELSE 0)

\* the unsigned part u of the text, with the sign sg read before it
StrDecimal(u, sg) ==
    IF StartsWith(u, <<"I", "n", "f", "i", "n", "i", "t", "y">>) THEN Inf(sg)
    ELSE DecimalA(u, sg, DigitRun(u, 1))

Trimmed(t) ==
    IF t # <<>> /\ t[1] \in {"+", "-"} THEN StrDecimal(Tail2(t, 2), IF t[1] = "-" THEN -1 ELSE 1)
    ELSE StrDecimal(t, 1)

\* parseFloat of a string: leading blanks are skipped, then the longest prefix
\* that is a StrDecimalLiteral is the value; NaN when there is none
ParseFloatStr(s) == Trimmed(Tail2(s, BlankRun(s, 1) + 1))

(***************************************************************************)
(* Address codec                                                           *)
(***************************************************************************)
\* parseCellId's "no match"
Null == [null |-> TRUE]

\* Variant of colToLetter: the loop runs while (col > 0)
RECURSIVE colToLetterFromOne(_)
colToLetterFromOne(col) ==
    IF col > 0
      THEN colToLetterFromOne((col \div 26) - 1) \o <<FromCharCode(65 + (col % 26))>>
      ELSE <<>>

RECURSIVE colToLetter(_)
colToLetter(col) ==
    IF col >= 0
      THEN colToLetter((col \div 26) - 1) \o <<FromCharCode(65 + (col % 26))>>
      ELSE <<>>

RECURSIVE letterToColLoop(_, _, _)
letterToColLoop(letter, i, col) ==
    IF i <= Len(letter)
      THEN letterToColLoop(letter, i + 1, col * 26 + (CharCode(letter[i]) - 64))
      ELSE col

letterToCol(letter) == letterToColLoop(letter, 1, 0) - 1

getCellId(row, col) == colToLetter(col) \o IntToStr(row + 1)

\* parseInt of a run of decimal digits
parseInt(s) == DigitsToNat(s)

\* the length of the match of [A-Z]+\d+ at position k of s, 0 when there is none
RefLenAB(a, b) == IF a >= 1 /\ b >= 1 THEN a + b ELSE 0

RefLenA(s, k, a) == RefLenAB(a, DigitRun(s, k + a))

RefLen(s, k) == RefLenA(s, k, UpperRun(s, k))

\* the result for a cell id that is a letters followed by digits to its end
matched(cellId, a) ==
    [col |-> letterToCol(SubSeq(cellId, 1, a)),
     row |-> parseInt(SubSeq(cellId, a + 1, Len(cellId))) - 1]

\* cellId.match(/^([A-Z]+)(\d+)$/)
parseCellId(cellId) ==
    IF cellId # <<>> /\ RefLen(cellId, 1) = Len(cellId) THEN matched(cellId, UpperRun(cellId, 1))
    ELSE Null

(***************************************************************************)
(* State                                                                   *)
(***************************************************************************)
VARIABLES
    data,          \* state.data: the cell records, in the insertion order of the keys
    selectedCell,  \* state.selectedCell
    isEditing,     \* state.isEditing
    editor,        \* the cell whose inline <input> is open, or NoCell
    barFocus,      \* whether the formula bar has the focus
    last,          \* the handler that changed the store last: its name, cell and input text
    edits,         \* how many handlers that change the store have run
    call,          \* the call of a function that a run applies on its own
    rows,          \* state.rows
    cols,          \* state.cols
    title,         \* the text of the title field, $sheetTitle.val()
    currentFilePath, \* state.currentFilePath
    stored,        \* the item 'numbers-sheet' of localStorage
    file,          \* the file of the virtual filesystem that the page's URL names
    files,         \* the object store 'files' of NorthFS: its records, one for each path
    design         \* the table design view: its field rows, the fields table and the timer

vars == <<data, selectedCell, isEditing, editor, barFocus, last, edits, call,
          rows, cols, title, currentFilePath, stored, file, files, design>>

\* the counts and the title of the sheet
sheet == <<rows, cols, title>>

\* what is kept outside the page, and the path the page saves to
storage == <<currentFilePath, stored, file, files, design>>

\* what the file manager and the table designer keep; the spreadsheet page
\* changes none of it
others == <<files, design>>

\* an object store without records
NoFiles == {}

\* no table is open in the design view
NoDesign == [row |-> <<>>, saved |-> <<>>, fieldSaveTimeout |-> 0]

\* a value of the store: a string or a number
Str(s) == [k |-> "str", s |-> s, x |-> NaN]

Num(x) == [k |-> "num", s |-> <<>>, x |-> x]

\* null
JsNull == [k |-> "null", s |-> <<>>, x |-> NaN]

\* a property that is not set
Undefined == [k |-> "undefined", s |-> <<>>, x |-> NaN]

ERROR == Str(<<"#", "E", "R", "R", "O", "R">>)

NoCell == <<>>

\* state.data[cellId] is set
Has(d, cellId) == \E i \in DOMAIN d : d[i].id = cellId

\* state.data[cellId], for a key that is set
Get(d, cellId) == d[CHOOSE i \in DOMAIN d : d[i].id = cellId]

\* state.data[cellId] = rec: an object keeps a key's place, a new key goes last
Put(d, rec) ==
    IF Has(d, rec.id) THEN [i \in DOMAIN d |-> IF d[i].id = rec.id THEN rec ELSE d[i]]
    ELSE Append(d, rec)

\* delete state.data[cellId]: the other keys keep their order
RECURSIVE Delete(_, _)
Delete(d, cellId) ==
    IF d = <<>> THEN <<>>
    ELSE IF Head(d).id = cellId THEN Delete(Tail(d), cellId)
    ELSE <<Head(d)>> \o Delete(Tail(d), cellId)

\* { value: '', formula: '', format: {} }
NewCell(cellId) ==
    [id |-> cellId, value |-> Str(<<>>), formula |-> <<>>, format |-> "", displayValue |-> Undefined]

\* if (!state.data[cellId]) state.data[cellId] = { value: '', formula: '', format: {} }
ensured(d, cellId) == IF Has(d, cellId) THEN d ELSE Append(d, NewCell(cellId))

\* String(v)
ToStr(v) ==
    IF v.k = "num" THEN NumToStr(v.x)
    ELSE IF v.k = "null" THEN <<"n", "u", "l", "l">>
    ELSE IF v.k = "undefined" THEN <<"u", "n", "d", "e", "f", "i", "n", "e", "d">>
    ELSE v.s

\* parseFloat(v): a number goes through its string
parseFloat(v) == ParseFloatStr(ToStr(v))

(***************************************************************************)
(* Range aggregator                                                        *)
(***************************************************************************)
Min(a, b) == IF a < b THEN a ELSE b

Max(a, b) == IF a > b THEN a ELSE b

\* the cell ids of rows r0..r1 and columns c0..c1, row by row
SpanCells(r0, r1, c0, c1) ==
    [k \in 1..((r1 - r0 + 1) * (c1 - c0 + 1)) |->
        getCellId(r0 + ((k - 1) \div (c1 - c0 + 1)), c0 + ((k - 1) % (c1 - c0 + 1)))]

RangeCells(startPos, endPos) ==
    SpanCells(Min(startPos.row, endPos.row), Max(startPos.row, endPos.row),
              Min(startPos.col, endPos.col), Max(startPos.col, endPos.col))

\* Variant of IsNumericCell: every stored cell of the span is pushed
IsStoredCell(d, cellId) == Has(d, cellId)

\* cellData && !isNaN(parseFloat(cellData.value))
IsNumericCell(d, cellId) == Has(d, cellId) /\ ~IsNaNNum(parseFloat(Get(d, cellId).value))

\* the values pushed for the cells ids[k], ids[k+1], ...
RECURSIVE pushValues(_, _, _)
pushValues(d, ids, k) ==
    IF k > Len(ids) THEN <<>>
    ELSE (IF IsNumericCell(d, ids[k]) THEN <<parseFloat(Get(d, ids[k]).value)>> ELSE <<>>)
         \o pushValues(d, ids, k + 1)

rangeValues(d, startPos, endPos) ==
    IF startPos = Null \/ endPos = Null THEN <<>>
    ELSE pushValues(d, RangeCells(startPos, endPos), 1)

getRangeValues(d, start, end) == rangeValues(d, parseCellId(start), parseCellId(end))

\* the sum of the first k values, from 0 on
RECURSIVE SumSeq(_, _)
SumSeq(values, k) == IF k = 0 THEN Int2Num(0) ELSE NumAdd(SumSeq(values, k - 1), values[k])

\* Math.min and Math.max of a non-empty list without NaN; -0 is below +0
MathMin2(x, y) == IF NumLess(y, x) \/ (IsZero(x) /\ IsZero(y) /\ y.sg = -1) THEN y ELSE x

MathMax2(x, y) == IF NumLess(x, y) \/ (IsZero(x) /\ IsZero(y) /\ y.sg = 1) THEN y ELSE x

RECURSIVE MathMin(_, _)
MathMin(values, k) == IF k = 1 THEN values[1] ELSE MathMin2(MathMin(values, k - 1), values[k])

RECURSIVE MathMax(_, _)
MathMax(values, k) == IF k = 1 THEN values[1] ELSE MathMax2(MathMax(values, k - 1), values[k])

\* Variant of rangeResult: avgRange divides without looking at values.length
rangeResultUnguarded(kind, values) ==
    CASE kind = "SUM"   -> SumSeq(values, Len(values))
      [] kind = "AVG"   -> NumDiv(SumSeq(values, Len(values)), Int2Num(Len(values)))
      [] kind = "MIN"   -> IF Len(values) # 0 THEN MathMin(values, Len(values)) ELSE Int2Num(0)
      [] kind = "MAX"   -> IF Len(values) # 0 THEN MathMax(values, Len(values)) ELSE Int2Num(0)
      [] kind = "COUNT" -> Int2Num(Len(values))

\* the five functions on the values of the range: reduce((a, b) => a + b, 0),
\* values.length ? ... : 0, and values.length
rangeResult(kind, values) ==
    CASE kind = "SUM"   -> SumSeq(values, Len(values))
      [] kind = "AVG"   -> IF Len(values) # 0
                             THEN NumDiv(SumSeq(values, Len(values)), Int2Num(Len(values)))
                             ELSE Int2Num(0)
      [] kind = "MIN"   -> IF Len(values) # 0 THEN MathMin(values, Len(values)) ELSE Int2Num(0)
      [] kind = "MAX"   -> IF Len(values) # 0 THEN MathMax(values, Len(values)) ELSE Int2Num(0)
      [] kind = "COUNT" -> Int2Num(Len(values))

\* sumRange, avgRange, minRange, maxRange and countRange, by kind
aggregate(d, kind, start, end) == rangeResult(kind, getRangeValues(d, start, end))

sumRange(d, start, end) == aggregate(d, "SUM", start, end)

avgRange(d, start, end) == aggregate(d, "AVG", start, end)

minRange(d, start, end) == aggregate(d, "MIN", start, end)

maxRange(d, start, end) == aggregate(d, "MAX", start, end)

countRange(d, start, end) == aggregate(d, "COUNT", start, end)

(***************************************************************************)
(* Formula evaluator                                                       *)
(***************************************************************************)
\* the five replace calls of evaluateFormula, in their order: the function and
\* the names its regular expression accepts
Passes ==
    << [kind |-> "SUM",   names |-> <<<<"S", "U", "M">>>>],
       [kind |-> "AVG",   names |-> <<<<"A", "V", "G">>, <<"A", "V", "E", "R", "A", "G", "E">>>>],
       [kind |-> "MIN",   names |-> <<<<"M", "I", "N">>>>],
       [kind |-> "MAX",   names |-> <<<<"M", "A", "X">>>>],
       [kind |-> "COUNT", names |-> <<<<"C", "O", "U", "N", "T">>>>] >>

NoMatch == [len |-> 0, start |-> <<>>, end |-> <<>>]

\* name( at i, then the references of lengths l1 and l2 around a colon, then )
MatchCallRefs(expr, i, p, l1, l2) ==
    IF /\ l1 >= 1 /\ l2 >= 1
       /\ expr[p + 1 + l1] = ":"
       /\ p + l1 + l2 + 2 <= Len(expr) /\ expr[p + l1 + l2 + 2] = ")"
      THEN [len   |-> p + l1 + l2 + 3 - i,
            start |-> SubSeq(expr, p + 1, p + l1),
            end   |-> SubSeq(expr, p + l1 + 2, p + l1 + l2 + 1)]
      ELSE NoMatch

MatchCallRef(expr, i, p, l1) ==
    IF l1 >= 1 /\ p + 1 + l1 <= Len(expr)
      THEN MatchCallRefs(expr, i, p, l1, RefLen(expr, p + l1 + 2))
      ELSE NoMatch

\* a match of name\(([A-Z]+\d+):([A-Z]+\d+)\) at position i of expr
MatchCall(expr, i, name) ==
    IF /\ StartsWith(Tail2(expr, i), name)
       /\ i + Len(name) <= Len(expr) /\ expr[i + Len(name)] = "("
      THEN MatchCallRef(expr, i, i + Len(name), RefLen(expr, i + Len(name) + 1))
      ELSE NoMatch

\* the match of (?:name1|name2|...)\(...\) at position i: the alternatives in order
RECURSIVE MatchAny(_, _, _, _)
RECURSIVE MatchOr(_, _, _, _, _)
MatchOr(expr, i, names, k, m) == IF m.len > 0 THEN m ELSE MatchAny(expr, i, names, k + 1)

MatchAny(expr, i, names, k) ==
    IF k > Len(names) THEN NoMatch
    ELSE MatchOr(expr, i, names, k, MatchCall(expr, i, names[k]))

\* expr.replace(/FN\(([A-Z]+\d+):([A-Z]+\d+)\)/g, callback), from position i on
RECURSIVE ReplaceCalls(_, _, _, _)
RECURSIVE ReplaceCall(_, _, _, _, _)
ReplaceCall(d, expr, i, pass, m) ==
    IF m.len > 0
      THEN NumToStr(aggregate(d, pass.kind, m.start, m.end)) \o ReplaceCalls(d, expr, i + m.len, pass)
      ELSE <<expr[i]>> \o ReplaceCalls(d, expr, i + 1, pass)

ReplaceCalls(d, expr, i, pass) ==
    IF i > Len(expr) THEN <<>>
    ELSE ReplaceCall(d, expr, i, pass, MatchAny(expr, i, pass.names, 1))

\* the replace calls k, k+1, ... of Passes on expr
RECURSIVE ReplacePasses(_, _, _)
ReplacePasses(d, expr, k) ==
    IF k > Len(Passes) THEN expr
    ELSE ReplacePasses(d, ReplaceCalls(d, expr, 1, Passes[k]), k + 1)

\* Variant of ZeroIfNaN: parseFloat(val) as it is
KeepNaN(x) == x

\* Variant of refValue: without the test cellId === currentCell
refValueOfAny(d, cellId, currentCell) ==
    IF Has(d, cellId) /\ ~IsNaNNum(parseFloat(Get(d, cellId).value))
      THEN parseFloat(Get(d, cellId).value)
      ELSE Int2Num(0)

\* Variant of refValue: a cell outside the grid reads as 0
refValueInGrid(d, cellId, currentCell) ==
    IF cellId = currentCell THEN Int2Num(0)
    ELSE IF parseCellId(cellId).row >= rows \/ parseCellId(cellId).col >= cols THEN Int2Num(0)
    ELSE refValueOfAny(d, cellId, currentCell)

\* isNaN(parseFloat(val)) ? 0 : parseFloat(val)
ZeroIfNaN(x) == IF IsNaNNum(x) THEN Int2Num(0) ELSE x

\* the callback of the cell reference replace
refValue(d, cellId, currentCell) ==
    IF cellId = currentCell THEN Int2Num(0)
    ELSE ZeroIfNaN(parseFloat(IF Has(d, cellId) THEN Get(d, cellId).value ELSE Num(Int2Num(0))))

\* expr.replace(/([A-Z]+)(\d+)/g, callback), from position i on
RECURSIVE ReplaceRefs(_, _, _, _)
RECURSIVE ReplaceRef(_, _, _, _, _)
ReplaceRef(d, expr, i, currentCell, len) ==
    IF len > 0
      THEN NumToStr(refValue(d, SubSeq(expr, i, i + len - 1), currentCell))
           \o ReplaceRefs(d, expr, i + len, currentCell)
      ELSE <<expr[i]>> \o ReplaceRefs(d, expr, i + 1, currentCell)

ReplaceRefs(d, expr, i, currentCell) ==
    IF i > Len(expr) THEN <<>>
    ELSE ReplaceRef(d, expr, i, currentCell, RefLen(expr, i))

\* formula.substring(1).toUpperCase() after the five aggregate replaces and the
\* cell reference replace
substituted(d, formula, currentCell) ==
    ReplaceRefs(d, ReplacePasses(d, ToUpperCase(Tail2(formula, 2)), 1), 1, currentCell)

(***************************************************************************)
(* Function('"use strict"; return (' + expr + ')')()                       *)
(*                                                                         *)
(* The expression grammar of JavaScript on the texts the model hands to    *)
(* it: blanks, decimal literals, the identifiers Infinity and NaN that a   *)
(* substituted number can spell, + - * / and parentheses.  Any other       *)
(* identifier is an unbound name or a value that is not a number, and any  *)
(* other character a SyntaxError: both end in '#ERROR'.  Outside the       *)
(* fragment, and in none of the model's inputs: the operators ** == and    *)
(* the like, comments, regular expression, hexadecimal, octal and binary   *)
(* literals.                                                               *)
(***************************************************************************)
Tok(t, v) == [t |-> t, v |-> v]

Bad == <<Tok("bad", NaN)>>

IsLetter(c) == IsUpper(c) \/ IsLower(c)

RECURSIVE IdentRun(_, _)
IdentRun(s, k) ==
    IF k <= Len(s) /\ (IsLetter(s[k]) \/ IsDigit(s[k])) THEN 1 + IdentRun(s, k + 1) ELSE 0

At(s, k) == IF k >= 1 /\ k <= Len(s) THEN s[k] ELSE ""

\* the literal of a integer digits and b fraction digits at i, m characters long,
\* with the exponent part e; len = 0 for a SyntaxError
LiteralExp(s, i, a, b, m, e) ==
    IF \/ (a >= 2 /\ s[i] = "0")                              \* 017, 08: not in strict mode
       \/ (At(s, i + m) \in {"e", "E"} /\ e.len = 0)           \* 1E, 1E+: an identifier follows
       \/ (e.len = 0 /\ IsLetter(At(s, i + m)))                \* 3A
       \/ (e.len > 0 /\ IsLetter(At(s, i + m + 1 + e.len + (IF At(s, i + m + 1) \in {"+", "-"} THEN 1 ELSE 0))))
      THEN [len |-> 0, v |-> NaN]
      ELSE [len |-> IF e.len = 0 THEN m
                    ELSE m + 1 + e.len + (IF At(s, i + m + 1) \in {"+", "-"} THEN 1 ELSE 0),
            v   |-> Scaled(1, DigitsToNat(SubSeq(s, i, i + a - 1) \o SubSeq(s, i + a + 1, i + a + b)),
                           e.ex - b)]

LiteralAB(s, i, a, b, dot) ==
    LiteralExp(s, i, a, b, IF dot THEN a + 1 + b ELSE a,
               ExponentPart(s, i + (IF dot THEN a + 1 + b ELSE a)))

LiteralA(s, i, a) ==
    LiteralAB(s, i, a, IF At(s, i + a) = "." THEN DigitRun(s, i + a + 1) ELSE 0, At(s, i + a) = ".")

\* the numeric literal at position i: [len, v]
NumericLiteral(s, i) == LiteralA(s, i, DigitRun(s, i))

\* the value of an identifier
Identifier(name) ==
    IF name = <<"I", "n", "f", "i", "n", "i", "t", "y">> THEN <<Tok("num", Inf(1))>>
    ELSE IF name = <<"N", "a", "N">> THEN <<Tok("num", NaN)>>
    ELSE Bad

\* a lexical error, or a name that has no numeric value, ends the token list with
\* a "bad" token: no parse goes past it
RECURSIVE Tokenize(_, _)
RECURSIVE TokenizeNum(_, _, _)
RECURSIVE TokenizeId(_, _, _, _)
TokenizeNum(s, i, lit) ==
    IF lit.len = 0 THEN Bad ELSE <<Tok("num", lit.v)>> \o Tokenize(s, i + lit.len)

TokenizeId(s, i, k, tok) == IF tok = Bad THEN Bad ELSE tok \o Tokenize(s, i + k)

Tokenize(s, i) ==
    IF i > Len(s) THEN <<>>
    ELSE IF s[i] = " " THEN Tokenize(s, i + 1)
    ELSE IF IsDigit(s[i]) \/ (s[i] = "." /\ IsDigit(At(s, i + 1)))
      THEN TokenizeNum(s, i, NumericLiteral(s, i))
    ELSE IF IsLetter(s[i])
      THEN TokenizeId(s, i, IdentRun(s, i), Identifier(SubSeq(s, i, i + IdentRun(s, i) - 1)))
    ELSE IF s[i] \in {"+", "-"}
      THEN (IF At(s, i + 1) = s[i] THEN Bad                   \* ++ and -- on a value
            ELSE <<Tok(s[i], NaN)>> \o Tokenize(s, i + 1))
    ELSE IF s[i] \in {"*", "/", "(", ")"} THEN <<Tok(s[i], NaN)>> \o Tokenize(s, i + 1)
    ELSE Bad

Fail == [ok |-> FALSE, v |-> NaN, p |-> 0]

Ok(v, p) == [ok |-> TRUE, v |-> v, p |-> p]

TokAt(toks, p) == IF p <= Len(toks) THEN toks[p].t ELSE "end"

RECURSIVE ParseAdditive(_, _)
RECURSIVE ParseAddRest(_, _, _)
RECURSIVE ParseAddStep(_, _, _, _)
RECURSIVE ParseMultiplicative(_, _)
RECURSIVE ParseMulRest(_, _, _)
RECURSIVE ParseMulStep(_, _, _, _)
RECURSIVE ParseMulStart(_, _)
RECURSIVE ParseAddStart(_, _)
RECURSIVE ParseUnary(_, _)
RECURSIVE ParsePrimary(_, _)

\* r is the parse of what follows a "("
Parenthesized(toks, r) == IF r.ok /\ TokAt(toks, r.p) = ")" THEN Ok(r.v, r.p + 1) ELSE Fail

ParsePrimary(toks, p) ==
    IF TokAt(toks, p) = "num" THEN Ok(toks[p].v, p + 1)
    ELSE IF TokAt(toks, p) = "(" THEN Parenthesized(toks, ParseAdditive(toks, p + 1))
    ELSE Fail

Negated(r) == IF r.ok THEN Ok(NumNeg(r.v), r.p) ELSE Fail

ParseUnary(toks, p) ==
    IF TokAt(toks, p) = "+" THEN ParseUnary(toks, p + 1)
    ELSE IF TokAt(toks, p) = "-" THEN Negated(ParseUnary(toks, p + 1))
    ELSE ParsePrimary(toks, p)

\* acc op r, and what follows
ParseMulStep(toks, acc, op, r) ==
    IF ~r.ok THEN Fail
    ELSE ParseMulRest(toks, IF op = "*" THEN NumMul(acc, r.v) ELSE NumDiv(acc, r.v), r.p)

ParseMulRest(toks, acc, p) ==
    IF TokAt(toks, p) \in {"*", "/"}
      THEN ParseMulStep(toks, acc, toks[p].t, ParseUnary(toks, p + 1))
      ELSE Ok(acc, p)

\* r is the parse of the first operand
ParseMulStart(toks, r) == IF r.ok THEN ParseMulRest(toks, r.v, r.p) ELSE Fail

ParseMultiplicative(toks, p) == ParseMulStart(toks, ParseUnary(toks, p))

ParseAddStep(toks, acc, op, r) ==
    IF ~r.ok THEN Fail
    ELSE ParseAddRest(toks, IF op = "+" THEN NumAdd(acc, r.v) ELSE NumSub(acc, r.v), r.p)

ParseAddRest(toks, acc, p) ==
    IF TokAt(toks, p) \in {"+", "-"}
      THEN ParseAddStep(toks, acc, toks[p].t, ParseMultiplicative(toks, p + 1))
      ELSE Ok(acc, p)

ParseAddStart(toks, r) == IF r.ok THEN ParseAddRest(toks, r.v, r.p) ELSE Fail

ParseAdditive(toks, p) == ParseAddStart(toks, ParseMultiplicative(toks, p))

\* the value of the whole token list, or the exception
Returned(toks, r) ==
    IF r.ok /\ r.p = Len(toks) + 1 THEN [ok |-> TRUE, v |-> r.v] ELSE [ok |-> FALSE, v |-> NaN]

Parsed(toks) == Returned(toks, ParseAdditive(toks, 1))

\* the call of the constructed function: [ok, v]; ~ok when it throws
JSEval(expr) == Parsed(Tokenize(<<"(">> \o expr \o <<")">>, 1))

\* return isNaN(result) ? '#ERROR' : result, and catch (e) { return '#ERROR' }
resultValue(result) ==
    IF ~result.ok THEN ERROR
    ELSE IF IsNaNNum(result.v) THEN ERROR
    ELSE Num(result.v)

evaluateFormula(d, formula, currentCell) ==
    resultValue(JSEval(substituted(d, formula, currentCell)))

(***************************************************************************)
(* Value formatter                                                         *)
(***************************************************************************)
\* three characters outside ASCII, each one element of a text: U+00A0,
\* U+2212 and U+221E
NoBreakSpace == "NBSP"

MinusSign == "MINUS"

InfinitySign == "INFINITY"

\* the digits s with zeros before them, f digits at least
RECURSIVE ZeroPad(_, _)
ZeroPad(s, f) == IF Len(s) >= f THEN s ELSE ZeroPad(<<"0">> \o s, f)

\* q, or the next integer when the remainder r of the division by d is a half
\* or more
HalfUp(q, r, d) == IF 2 * r >= d THEN q + 1 ELSE q

\* the integer nearest to |x| * 10^f, a tie going away from zero
RoundedAt(x, f) == HalfUp((x.n * Pow10(f)) \div x.d, (x.n * Pow10(f)) % x.d, x.d)

\* the digits of an integer in groups of three, as the sv-SE locale writes them
RECURSIVE Grouped(_)
Grouped(s) ==
    IF Len(s) <= 3 THEN s
    ELSE Grouped(SubSeq(s, 1, Len(s) - 3)) \o <<NoBreakSpace>> \o SubSeq(s, Len(s) - 2, Len(s))

\* Number.prototype.toFixed(f) of a number below 1e21
toFixed(x, f) ==
    IF ~IsFinite(x) THEN NumToStr(x)
    ELSE (IF x.sg = -1 /\ ~IsZero(x) THEN <<"-">> ELSE <<>>)
         \o NatToStr(RoundedAt(x, f) \div Pow10(f))
         \o <<".">> \o ZeroPad(NatToStr(RoundedAt(x, f) % Pow10(f)), f)

\* num.toLocaleString('sv-SE', { minimumFractionDigits: 2, maximumFractionDigits: 2 })
toLocaleNumber(x) ==
    IF IsNaNNum(x) THEN <<"N", "a", "N">>
    ELSE (IF x.sg = -1 THEN <<MinusSign>> ELSE <<>>)
         \o (IF IsInf(x) THEN <<InfinitySign>>
             ELSE Grouped(NatToStr(RoundedAt(x, 2) \div 100))
                  \o <<",">> \o ZeroPad(NatToStr(RoundedAt(x, 2) % 100), 2))

\* num.toLocaleString('sv-SE', { style: 'currency', currency: 'SEK' })
toLocaleCurrency(x) ==
    IF IsNaNNum(x) THEN <<"N", "a", "N">> ELSE toLocaleNumber(x) \o <<NoBreakSpace, "k", "r">>

\* the switch of formatValue on a value that parses to the number num
formatted(value, num, type) ==
    IF type = "number" THEN Str(toLocaleNumber(num))
    ELSE IF type = "currency" THEN Str(toLocaleCurrency(num))
    ELSE IF type = "percent" THEN Str(toFixed(NumMul(num, Int2Num(100)), 1) \o <<"%">>)
    ELSE value

\* format is the type of the cell's format object, "" for an object without one
formatValue(value, format) ==
    IF format = "" THEN value
    ELSE IF IsNaNNum(parseFloat(value)) THEN value
    ELSE formatted(value, parseFloat(value), format)

\* Variant of shown: the formatted text is stored as the value too
shownOverValue(rec) ==
    [rec EXCEPT !.displayValue = formatValue(rec.value, rec.format),
                !.value = formatValue(rec.value, rec.format)]

\* cellData.displayValue = formatValue(cellData.value, cellData.format)
shown(rec) == [rec EXCEPT !.displayValue = formatValue(rec.value, rec.format)]

(***************************************************************************)
(* Recalculation                                                           *)
(***************************************************************************)
\* Object.keys(state.data).forEach(...), from the i-th key on
RECURSIVE recalculateFrom(_, _)
recalculateFrom(d, i) ==
    IF i > Len(d) THEN d
    ELSE recalculateFrom(IF d[i].formula # <<>>
                           THEN [d EXCEPT ![i] = shown([d[i] EXCEPT !.value =
                                         evaluateFormula(d, d[i].formula, d[i].id)])]
                           ELSE d,
                         i + 1)

\* Variant of recalculateAll: no pass
recalculateNothing(d) == d

\* Variant of recalculateAll: the keys from the last to the first
RECURSIVE recalculateDownFrom(_, _)
recalculateDownFrom(d, i) ==
    IF i < 1 THEN d
    ELSE recalculateDownFrom(IF d[i].formula # <<>>
                               THEN [d EXCEPT ![i] = shown([d[i] EXCEPT !.value =
                                         evaluateFormula(d, d[i].formula, d[i].id)])]
                               ELSE d,
                             i - 1)

recalculateBackwards(d) == recalculateDownFrom(d, Len(d))

recalculateAll(d) == recalculateFrom(d, 1)

(***************************************************************************)
(* The handlers                                                            *)
(***************************************************************************)
defaultRows == 50

defaultCols == 26

maxRows == 1000

maxCols == 52

A1 == <<"A", "1">>

A2 == <<"A", "2">>

B1 == <<"B", "1">>

(***************************************************************************)
(* Snapshots: the item of localStorage and the file of the filesystem.     *)
(* An item is the text that JSON.stringify wrote, or any other text; the   *)
(* model keeps it as what JSON.parse makes of it: "absent" for no item,    *)
(* "unparsable" for a text that JSON.parse throws on, "null" for the text  *)
(* null, and "json" for an object with the properties title, data, rows    *)
(* and cols, each a value or Undefined when the object has none.  A file   *)
(* is "absent", or "json" with the object that is its content.             *)
(***************************************************************************)
\* 'Namnl(o-umlaut)st kalkylark'; the umlaut is one element of the text
Untitled == <<"N", "a", "m", "n", "l", "OUML", "s", "t", " ", "k", "a", "l", "k", "y", "l", "a", "r", "k">>

\* state.currentFilePath: null
NoPath == <<>>

Item(kind, t, d, r, c) == [item |-> kind, title |-> t, data |-> d, rows |-> r, cols |-> c]

Absent == Item("absent", Undefined, <<>>, Undefined, Undefined)

Unparsable == Item("unparsable", Undefined, <<>>, Undefined, Undefined)

NullItem == Item("null", Undefined, <<>>, Undefined, Undefined)

\* JSON.stringify of a value and JSON.parse of the text: a number that is not
\* finite is written as null, minus zero as 0; undefined is left out
jsonValue(v) ==
    IF v.k = "num" /\ ~IsFinite(v.x) THEN JsNull
    ELSE IF v.k = "num" /\ IsZero(v.x) THEN Num(Int2Num(0))
    ELSE v

jsonCell(rec) ==
    [rec EXCEPT !.value = jsonValue(rec.value), !.displayValue = jsonValue(rec.displayValue)]

jsonData(d) == [i \in DOMAIN d |-> jsonCell(d[i])]

\* JSON.stringify({ title, data: state.data, rows: state.rows, cols: state.cols })
snapshot(t, d, r, c) == Item("json", Str(t), jsonData(d), Num(Int2Num(r)), Num(Int2Num(c)))

\* the content saveToFilesystem hands to NorthFS.saveFile, which keeps a
\* structured clone of it
content(t, d, r, c) == Item("json", Str(t), d, Num(Int2Num(r)), Num(Int2Num(c)))

\* a value that || keeps
Truthy(v) ==
    \/ v.k = "str" /\ v.s # <<>>
    \/ v.k = "num" /\ ~IsNaNNum(v.x) /\ ~IsZero(v.x)

\* v || w
OrElse(v, w) == IF Truthy(v) THEN v ELSE w

\* the integer that a count of a snapshot is
Count(v) == v.x.sg * v.x.n

\* the part of the state that a load assigns
Sheet(t, d, r, c, path) == [title |-> t, data |-> d, rows |-> r, cols |-> c, currentFilePath |-> path]

\* the state before initialize() loads
Constructed == Sheet(Untitled, <<>>, defaultRows, defaultCols, NoPath)

\* Variant of loadFromLocalStorage: the title is cleared before the item is
\* parsed
loadTitleFirst(st, saved) ==
    IF saved.item = "json"
      THEN Sheet(ToStr(OrElse(saved.title, Str(Untitled))),
                 saved.data,
                 Count(OrElse(saved.rows, Num(Int2Num(defaultRows)))),
                 Count(OrElse(saved.cols, Num(Int2Num(defaultCols)))),
                 st.currentFilePath)
      ELSE [st EXCEPT !.title = <<>>]

\* loadFromLocalStorage on the state st: JSON.parse throws on an unparsable
\* item, and reading data.title throws when the item is null; the catch block
\* assigns nothing
loadFromLocalStorage(st, saved) ==
    IF saved.item = "json"
      THEN Sheet(ToStr(OrElse(saved.title, Str(Untitled))),
                 saved.data,
                 Count(OrElse(saved.rows, Num(Int2Num(defaultRows)))),
                 Count(OrElse(saved.cols, Num(Int2Num(defaultCols)))),
                 st.currentFilePath)
      ELSE st

\* the position of the last "/" of a path, 0 when it has none
RECURSIVE LastSlash(_, _)
LastSlash(path, k) == IF k = 0 \/ path[k] = "/" THEN k ELSE LastSlash(path, k - 1)

\* the name of the file at a path
fileName(path) == Tail2(path, LastSlash(path, Len(path)) + 1)

\* the first position from k on at which p occurs in s, 0 when there is none
RECURSIVE Search(_, _, _)
Search(s, p, k) ==
    IF k + Len(p) - 1 > Len(s) THEN 0
    ELSE IF SubSeq(s, k, k + Len(p) - 1) = p THEN k
    ELSE Search(s, p, k + 1)

Without(s, p, k) == IF k = 0 THEN s ELSE SubSeq(s, 1, k - 1) \o Tail2(s, k + Len(p))

\* name.replace('.numbers', '')
stem(name) == Without(name, <<".", "n", "u", "m", "b", "e", "r", "s">>,
                      Search(name, <<".", "n", "u", "m", "b", "e", "r", "s">>, 1))

\* loadFromFilesystem(filePath) on the state st, f the file at the path
loadFromFilesystem(st, filePath, f) ==
    IF f.item = "json"
      THEN Sheet(ToStr(OrElse(f.title, Str(stem(fileName(filePath))))),
                 f.data,
                 Count(OrElse(f.rows, Num(Int2Num(defaultRows)))),
                 Count(OrElse(f.cols, Num(Int2Num(defaultCols)))),
                 filePath)
      ELSE st

\* the loads of initialize(), filePath the file parameter of the URL
initialize(filePath, saved, f) ==
    IF filePath # NoPath THEN loadFromFilesystem(Constructed, filePath, f)
    ELSE loadFromLocalStorage(Constructed, saved)

\* saveToLocalStorage() at the end of a handler that has set data
SaveToLocalStorage ==
    /\ stored' = snapshot(title, data', rows, cols)
    /\ file' = IF currentFilePath # NoPath THEN content(title, data', rows, cols) ELSE file
    /\ UNCHANGED <<currentFilePath, others>>

\* the bound on the handlers that change the store
MaxEdits == 3

Last(op, cellId, input) == [op |-> op, cell |-> cellId, input |-> input]

\* state.data[cellId].value = evaluateFormula(value, cellId)
evaluated(d, cellId, value) ==
    Put(d, shown([Get(d, cellId) EXCEPT !.value = evaluateFormula(d, value, cellId)]))

\* Variant of assignedTo: the formula text is stored in upper case
assignedUpperCase(d, cellId, value) ==
    IF StartsWith(value, <<"=">>)
      THEN evaluated(Put(d, [Get(d, cellId) EXCEPT !.formula = ToUpperCase(value)]), cellId, value)
      ELSE Put(d, shown([Get(d, cellId) EXCEPT !.formula = <<>>, !.value = Str(value)]))

\* the assignments of finishEditing to a cell that has its record
assignedTo(d, cellId, value) ==
    IF StartsWith(value, <<"=">>)
      THEN evaluated(Put(d, [Get(d, cellId) EXCEPT !.formula = value]), cellId, value)
      ELSE Put(d, shown([Get(d, cellId) EXCEPT !.formula = <<>>, !.value = Str(value)]))

\* the store after the assignments of finishEditing, before its recalculateAll()
assigned(d, cellId, value) == assignedTo(ensured(d, cellId), cellId, value)

\* the store after finishEditing
committed(d, cellId, value) == recalculateAll(assigned(d, cellId, value))

movedTo(pos, key) ==
    IF key = "Enter" /\ pos # Null /\ pos.row < rows - 1 THEN getCellId(pos.row + 1, pos.col)
    ELSE IF key = "Tab" /\ pos # Null /\ pos.col < cols - 1 THEN getCellId(pos.row, pos.col + 1)
    ELSE NoCell

\* the cell Enter or Tab in the inline editor moves the selection to
nextCell(cellId, key) == movedTo(parseCellId(cellId), key)

\* generateSpreadsheet() has made a td for the cell: the handlers of a td
\* run for the cells of the grid only
InGrid(cellId) ==
    /\ parseCellId(cellId) # Null
    /\ parseCellId(cellId).row \in 0..(rows - 1)
    /\ parseCellId(cellId).col \in 0..(cols - 1)

\* no call of a function on its own
Idle == [pc |-> "idle"]

Init ==
    /\ data = <<>>
    /\ selectedCell = A1
    /\ isEditing = FALSE
    /\ editor = NoCell
    /\ barFocus = FALSE
    /\ last = Last("initialize", NoCell, <<>>)
    /\ edits = 0
    /\ call = Idle
    /\ rows = defaultRows
    /\ cols = defaultCols
    /\ title = Untitled
    /\ currentFilePath = NoPath
    /\ stored = Absent
    /\ file = Absent
    /\ files = NoFiles
    /\ design = NoDesign

\* click on a cell
SelectCell(Cells) ==
    \E cellId \in Cells :
        /\ editor = NoCell
        /\ InGrid(cellId)
        /\ selectedCell' = IF selectedCell # cellId \/ ~isEditing THEN cellId ELSE selectedCell
        /\ barFocus' = FALSE
        /\ UNCHANGED <<call, data, isEditing, editor, last, edits, sheet, storage>>

\* double click on the selected cell, or Enter on it
StartEditing ==
    /\ editor = NoCell
    /\ InGrid(selectedCell)
    /\ ~barFocus
    /\ ~isEditing
    /\ isEditing' = TRUE
    /\ editor' = selectedCell
    /\ UNCHANGED <<call, data, selectedCell, barFocus, last, edits, sheet, storage>>

\* blur, Enter or Tab in the inline editor that holds the text value
FinishEditing(Cells, Inputs) ==
    \E value \in Inputs, key \in {"blur", "Enter", "Tab"} :
        /\ edits < MaxEdits
        /\ editor # NoCell
        /\ isEditing
        /\ key = "blur" \/ nextCell(editor, key) \in Cells
        /\ isEditing' = FALSE
        /\ data' = committed(data, editor, value)
        /\ editor' = NoCell
        /\ selectedCell' = IF key = "blur" THEN selectedCell ELSE nextCell(editor, key)
        /\ last' = Last("finishEditing", editor, value)
        /\ edits' = edits + 1
        /\ UNCHANGED <<call, barFocus, sheet>>
        /\ SaveToLocalStorage

\* Escape in the inline editor
CancelEditing ==
    /\ editor # NoCell
    /\ isEditing' = FALSE
    /\ editor' = NoCell
    /\ UNCHANGED <<call, data, selectedCell, barFocus, last, edits, sheet, storage>>

\* Delete or Backspace on the selected cell
DeleteKey ==
    /\ edits < MaxEdits
    /\ editor = NoCell
    /\ InGrid(selectedCell)
    /\ ~barFocus
    /\ ~isEditing
    /\ data' = recalculateAll(Delete(data, selectedCell))
    /\ last' = Last("delete", selectedCell, <<>>)
    /\ edits' = edits + 1
    /\ UNCHANGED <<call, selectedCell, isEditing, editor, barFocus, sheet>>
    /\ SaveToLocalStorage

\* a printable key on the selected cell
TypeKey ==
    /\ edits < MaxEdits
    /\ editor = NoCell
    /\ InGrid(selectedCell)
    /\ ~barFocus
    /\ ~isEditing
    /\ data' = Put(ensured(data, selectedCell),
                   [Get(ensured(data, selectedCell), selectedCell) EXCEPT !.value = Str(<<>>)])
    /\ isEditing' = TRUE
    /\ editor' = selectedCell
    /\ last' = Last("typeKey", selectedCell, <<>>)
    /\ edits' = edits + 1
    /\ UNCHANGED <<call, selectedCell, barFocus, sheet, storage>>

\* the formula bar takes the focus
FormulaFocus ==
    /\ editor = NoCell
    /\ ~barFocus
    /\ barFocus' = TRUE
    /\ isEditing' = TRUE
    /\ UNCHANGED <<call, data, selectedCell, editor, last, edits, sheet, storage>>

\* Enter in the formula bar that holds the text value
FormulaEnter(Inputs) ==
    \E value \in Inputs :
        /\ edits < MaxEdits
        /\ barFocus
        /\ isEditing
        /\ isEditing' = FALSE
        /\ data' = committed(data, selectedCell, value)
        /\ barFocus' = FALSE
        /\ last' = Last("finishEditing", selectedCell, value)
        /\ edits' = edits + 1
        /\ UNCHANGED <<call, selectedCell, editor, sheet>>
        /\ SaveToLocalStorage

\* one of the format buttons
ApplyFormat(Formats) ==
    \E type \in Formats :
        /\ edits < MaxEdits
        /\ editor = NoCell
        /\ data' = Put(ensured(data, selectedCell),
                       shown([Get(ensured(data, selectedCell), selectedCell) EXCEPT !.format = type]))
        /\ last' = Last("applyFormat", selectedCell, <<>>)
        /\ edits' = edits + 1
        /\ UNCHANGED <<call, selectedCell, isEditing, editor, barFocus, sheet>>
        /\ SaveToLocalStorage

\* Math.min(n + 1, max)
added(n, max) == Min(n + 1, max)

\* Variant of removed: no test of the count
removedUnguarded(n) == n - 1

\* if (n > 1) n--
removed(n) == IF n > 1 THEN n - 1 ELSE n

\* the Add row button; last.input is the count before the click
AddRow ==
    /\ edits < MaxEdits
    /\ editor = NoCell
    /\ rows' = added(rows, maxRows)
    /\ last' = Last("addRow", NoCell, IntToStr(rows))
    /\ edits' = edits + 1
    /\ UNCHANGED <<call, data, selectedCell, isEditing, editor, barFocus, cols, title, storage>>

\* the Add column button
AddCol ==
    /\ edits < MaxEdits
    /\ editor = NoCell
    /\ cols' = added(cols, maxCols)
    /\ last' = Last("addCol", NoCell, IntToStr(cols))
    /\ edits' = edits + 1
    /\ UNCHANGED <<call, data, selectedCell, isEditing, editor, barFocus, rows, title, storage>>

\* the Delete row button
DeleteRow ==
    /\ edits < MaxEdits
    /\ editor = NoCell
    /\ rows' = removed(rows)
    /\ last' = Last("deleteRow", NoCell, IntToStr(rows))
    /\ edits' = edits + 1
    /\ UNCHANGED <<call, data, selectedCell, isEditing, editor, barFocus, cols, title, storage>>

\* the Delete column button
DeleteCol ==
    /\ edits < MaxEdits
    /\ editor = NoCell
    /\ cols' = removed(cols)
    /\ last' = Last("deleteCol", NoCell, IntToStr(cols))
    /\ edits' = edits + 1
    /\ UNCHANGED <<call, data, selectedCell, isEditing, editor, barFocus, rows, title, storage>>

\* the confirmed New sheet button
NewSheet ==
    /\ edits < MaxEdits
    /\ editor = NoCell
    /\ data' = <<>>
    /\ title' = Untitled
    /\ stored' = Absent
    /\ last' = Last("newSheet", NoCell, <<>>)
    /\ edits' = edits + 1
    /\ UNCHANGED <<call, selectedCell, isEditing, editor, barFocus, rows, cols, currentFilePath, file, others>>

\* the page is loaded again, filePath the file parameter of its URL: the
\* state is constructed anew and initialize() runs
Reload(Paths) ==
    \E filePath \in Paths :
        /\ title' = initialize(filePath, stored, file).title
        /\ data' = initialize(filePath, stored, file).data
        /\ rows' = initialize(filePath, stored, file).rows
        /\ cols' = initialize(filePath, stored, file).cols
        /\ currentFilePath' = initialize(filePath, stored, file).currentFilePath
        /\ selectedCell' = A1
        /\ isEditing' = FALSE
        /\ editor' = NoCell
        /\ barFocus' = FALSE
        /\ last' = Last("initialize", filePath, <<>>)
        /\ UNCHANGED <<call, edits, stored, file, others>>

\* text.replace(/"/g, '""')
RECURSIVE quotesDoubled(_)
quotesDoubled(text) ==
    IF text = <<>> THEN <<>>
    ELSE (IF Head(text) = "\"" THEN <<"\"", "\"">> ELSE <<Head(text)>>) \o quotesDoubled(Tail(text))

\* cellData ? (cellData.value || '') : ''
csvValue(d, cellId) ==
    IF Has(d, cellId) THEN OrElse(Get(d, cellId).value, Str(<<>>)) ELSE Str(<<>>)

\* '"' + String(value).replace(/"/g, '""') + '"'
csvField(d, cellId) == <<"\"">> \o quotesDoubled(ToStr(csvValue(d, cellId))) \o <<"\"">>

\* row.join(';') of the fields of the columns c, c+1, ... of row r
RECURSIVE csvRow(_, _, _, _)
csvRow(d, r, c, cs) ==
    IF c >= cs THEN <<>>
    ELSE (IF c = 0 THEN <<>> ELSE <<";">>) \o csvField(d, getCellId(r, c)) \o csvRow(d, r, c + 1, cs)

\* csv += row.join(';') + '\n' for the rows r, r+1, ...
RECURSIVE csvRows(_, _, _, _)
csvRows(d, r, rs, cs) ==
    IF r >= rs THEN <<>>
    ELSE csvRow(d, r, 0, cs) \o <<"\n">> \o csvRows(d, r + 1, rs, cs)

\* the text of the Blob that the Export CSV button downloads
exportCsv(d, rs, cs) == csvRows(d, 0, rs, cs)

\* the Export CSV button; call records the text of the download
ExportCsv ==
    /\ edits < MaxEdits
    /\ editor = NoCell
    /\ call' = [pc |-> "exported", csv |-> exportCsv(data, rows, cols)]
    /\ last' = Last("exportCsv", NoCell, <<>>)
    /\ edits' = edits + 1
    /\ UNCHANGED <<data, selectedCell, isEditing, editor, barFocus, sheet, storage>>

(***************************************************************************)
(* NorthFS, the virtual filesystem: the object store 'files' has the key   *)
(* path; it is the set of its records, no two with the same path.  A       *)
(* record has a path, a name, a parent (the empty text for null), a type   *)
(* and a content (the empty text for a folder, which has none).  Each      *)
(* function runs to its end before another starts.                         *)
(***************************************************************************)
Root == <<"/">>

\* the position of the last ch of s at or before k, 0 when there is none
RECURSIVE LastOf(_, _, _)
LastOf(s, ch, k) == IF k = 0 \/ s[k] = ch THEN k ELSE LastOf(s, ch, k - 1)

\* name.split('.').pop().toLowerCase() is compared in upper case
extension(name) == ToUpperCase(Tail2(name, LastOf(name, ".", Len(name)) + 1))

getFileType(name) ==
    IF name = <<>> \/ name[Len(name)] = "/" THEN "folder"
    ELSE IF extension(name) = <<"W", "O", "R", "D", "S">> THEN "words"
    ELSE IF extension(name) = <<"N", "U", "M", "B", "E", "R", "S">> THEN "numbers"
    ELSE IF extension(name) = <<"T", "X", "T">> THEN "text"
    ELSE "unknown"

\* parentPath === '/' ? `/${name}` : `${parentPath}/${name}`
pathIn(parentPath, name) ==
    IF parentPath = Root THEN <<"/">> \o name ELSE parentPath \o <<"/">> \o name

\* store.put(record)
put(S, record) == {x \in S : x.path # record.path} \cup {record}

\* whether store.get(path) gives a record
stores(S, path) == \E x \in S : x.path = path

\* getFile(path), for a path that has a record
getFile(S, path) == CHOOSE x \in S : x.path = path

\* listFolder(folderPath): the records with the parent folderPath
listFolder(S, folderPath) == {x \in S : x.parent = folderPath}

\* the item a loop over a list visits first
firstOf(items) == CHOOSE x \in items : TRUE

\* createFolder(name, parentPath)
createFolder(S, name, parentPath) ==
    put(S, [path |-> IF parentPath = <<>> THEN Root ELSE pathIn(parentPath, name),
            name |-> IF name = <<>> THEN <<"R", "o", "o", "t">> ELSE name,
            parent |-> parentPath,
            type |-> "folder",
            content |-> <<>>])

\* saveFile(name, parentPath, content), body the content
saveFile(S, name, parentPath, body) ==
    put(S, [path |-> pathIn(parentPath, name),
            name |-> name,
            parent |-> parentPath,
            type |-> getFileType(name),
            content |-> body])

\* deleteFile(path); deleteEach is its loop over the contents of a folder
RECURSIVE deleteFile(_, _)
RECURSIVE deleteEach(_, _)
deleteEach(S, items) ==
    IF items = {} THEN S
    ELSE deleteEach(deleteFile(S, firstOf(items).path), items \ {firstOf(items)})

deleteFile(S, path) ==
    {x \in (IF stores(S, path) /\ getFile(S, path).type = "folder"
              THEN deleteEach(S, listFolder(S, path))
              ELSE S) : x.path # path}

\* s.replace(p, r): the first occurrence of p
replaceFirst(s, p, r, k) == IF k = 0 THEN s ELSE SubSeq(s, 1, k - 1) \o r \o Tail2(s, k + Len(p))

\* the loop of renameFile over the contents of the folder
RECURSIVE putRenamed(_, _, _, _)
putRenamed(S, items, oldPath, newPath) ==
    IF items = {} THEN S
    ELSE putRenamed(put(S, [firstOf(items) EXCEPT
                              !.path = replaceFirst(@, oldPath, newPath, Search(@, oldPath, 1)),
                              !.parent = newPath]),
                    items \ {firstOf(items)}, oldPath, newPath)

\* the store after renameFile has moved the contents and deleted the old entry
renamedFrom(S, oldPath, newPath) ==
    deleteFile(IF getFile(S, oldPath).type = "folder"
                 THEN putRenamed(S, listFolder(S, oldPath), oldPath, newPath)
                 ELSE S,
               oldPath)

\* renameFile(oldPath, newName); it throws when the path has no record
renameFile(S, oldPath, newName) ==
    IF ~stores(S, oldPath) THEN S
    ELSE put(renamedFrom(S, oldPath, pathIn(getFile(S, oldPath).parent, newName)),
             [getFile(S, oldPath) EXCEPT !.path = pathIn(getFile(S, oldPath).parent, newName),
                                         !.name = newName])

\* moveFile(sourcePath, destFolderPath); it throws when the path has no record
moveFile(S, sourcePath, destFolderPath) ==
    IF ~stores(S, sourcePath) THEN S
    ELSE put(deleteFile(S, sourcePath),
             [getFile(S, sourcePath) EXCEPT !.path = pathIn(destFolderPath, getFile(S, sourcePath).name),
                                            !.parent = destFolderPath])

\* the paths of the folders of the store
Folders(S) == {x.path : x \in {y \in S : y.type = "folder"}}

\* the file manager creates a folder in one of the folders
CreateFolder(Names) ==
    \E name \in Names, parentPath \in Folders(files) :
        /\ edits < MaxEdits
        /\ files' = createFolder(files, name, parentPath)
        /\ last' = Last("createFolder", parentPath, name)
        /\ edits' = edits + 1
        /\ UNCHANGED <<call, data, selectedCell, isEditing, editor, barFocus, sheet,
                       currentFilePath, stored, file, design>>

\* a file is saved in one of the folders
SaveFile(Names, Contents) ==
    \E name \in Names, parentPath \in Folders(files), body \in Contents :
        /\ edits < MaxEdits
        /\ files' = saveFile(files, name, parentPath, body)
        /\ last' = Last("saveFile", parentPath, name)
        /\ edits' = edits + 1
        /\ UNCHANGED <<call, data, selectedCell, isEditing, editor, barFocus, sheet,
                       currentFilePath, stored, file, design>>

\* the file manager deletes the selected file or folder
DeleteFile ==
    \E x \in files :
        /\ edits < MaxEdits
        /\ x.path # Root
        /\ files' = deleteFile(files, x.path)
        /\ last' = Last("deleteFile", x.path, <<>>)
        /\ edits' = edits + 1
        /\ UNCHANGED <<call, data, selectedCell, isEditing, editor, barFocus, sheet,
                       currentFilePath, stored, file, design>>

\* the file manager renames the selected file or folder
RenameFile(Names) ==
    \E x \in files, newName \in Names :
        /\ edits < MaxEdits
        /\ x.path # Root
        /\ files' = renameFile(files, x.path, newName)
        /\ last' = Last("renameFile", x.path, newName)
        /\ edits' = edits + 1
        /\ UNCHANGED <<call, data, selectedCell, isEditing, editor, barFocus, sheet,
                       currentFilePath, stored, file, design>>

\* a file or folder is moved to a folder that is not the folder itself or
\* below it
MoveFile ==
    \E x \in files, destFolderPath \in Folders(files) :
        /\ edits < MaxEdits
        /\ x.path # Root
        /\ ~StartsWith(destFolderPath \o <<"/">>, x.path \o <<"/">>)
        /\ files' = moveFile(files, x.path, destFolderPath)
        /\ last' = Last("moveFile", x.path, destFolderPath)
        /\ edits' = edits + 1
        /\ UNCHANGED <<call, data, selectedCell, isEditing, editor, barFocus, sheet,
                       currentFilePath, stored, file, design>>

(***************************************************************************)
(* The table design view of the database page: design.row is the name that *)
(* each field row shows, design.saved the name of its field in the fields  *)
(* table, and design.fieldSaveTimeout the row whose change event the       *)
(* pending timeout closes over, 0 when no timeout is pending.              *)
(***************************************************************************)
\* what handleFieldChange does to the timer, for a change event of row r:
\* clearTimeout(fieldSaveTimeout); fieldSaveTimeout = setTimeout(..., 500)
rescheduled(d, r) == [d EXCEPT !.fieldSaveTimeout = r]

\* the callback of the timeout: saveField of the row of the event, unless its
\* name is empty
timedOut(d) ==
    [d EXCEPT !.saved = IF d.row[d.fieldSaveTimeout] # <<>>
                          THEN [@ EXCEPT ![d.fieldSaveTimeout] = d.row[d.fieldSaveTimeout]]
                          ELSE @,
              !.fieldSaveTimeout = 0]

\* the user changes the name in a field row
HandleFieldChange(Names) ==
    \E r \in DOMAIN design.row, name \in Names :
        /\ name # design.row[r]
        /\ design' = rescheduled([design EXCEPT !.row[r] = name], r)
        /\ UNCHANGED <<call, data, selectedCell, isEditing, editor, barFocus, last, edits, sheet,
                       currentFilePath, stored, file, files>>

\* 500 ms have passed since the last change
TimeoutFires ==
    /\ design.fieldSaveTimeout # 0
    /\ design' = timedOut(design)
    /\ UNCHANGED <<call, data, selectedCell, isEditing, editor, barFocus, last, edits, sheet,
                   currentFilePath, stored, file, files>>

(***************************************************************************)
(* Specifications                                                          *)
(***************************************************************************)
\* the texts the runs type
T_5 == <<"5">>

T_A2 == <<"=", "A", "2">>

T_B1 == <<"=", "B", "1">>

T_A1p1 == <<"=", "A", "1", "+", "1">>

T_2 == <<"2">>

T_3 == <<"3">>

T_x == <<"x">>

T_open == <<"=", "(">>

T_SUM == <<"=", "S", "U", "M", "(", "A", "1", ":", "A", "2", ")">>

T_AVG == <<"=", "A", "V", "G", "(", "A", "1", ":", "A", "2", ")">>

T_COUNT == <<"=", "C", "O", "U", "N", "T", "(", "A", "1", ":", "A", "2", ")">>

T_a1p == <<"=", "a", "1", "+">>

T_A1pA2 == <<"=", "A", "1", "+", "A", "2">>

T_A1dA2 == <<"=", "A", "1", "/", "A", "2">>

T_1d0 == <<"=", "1", "/", "0">>

A3 == <<"A", "3">>

\* the format buttons the runs press
Formats == {"currency"}

\* Recalculation runs: references between three cells
Cells == {A1, A2, B1}

Inputs == {T_5, T_A2, T_B1}

Next ==
    \/ SelectCell(Cells)
    \/ StartEditing
    \/ FinishEditing(Cells, Inputs)
    \/ CancelEditing
    \/ DeleteKey
    \/ TypeKey
    \/ FormulaFocus
    \/ FormulaEnter(Inputs)
    \/ ApplyFormat(Formats)

Spec == Init /\ [][Next]_vars

\* Error runs: a formula that fails, formulas that divide by zero and a
\* formula that references its own cell
ErrorInputs == {T_A1p1, T_a1p, T_A1dA2, T_1d0}

NextErrors ==
    \/ SelectCell(Cells)
    \/ StartEditing
    \/ FinishEditing(Cells, ErrorInputs)
    \/ CancelEditing
    \/ DeleteKey
    \/ TypeKey
    \/ FormulaFocus
    \/ FormulaEnter(ErrorInputs)
    \/ ApplyFormat(Formats)

SpecErrors == Init /\ [][NextErrors]_vars

(***************************************************************************)
(* The evaluator and the aggregates on their own: on every store of A1, A2 *)
(* and A3 in which a cell is missing or holds a record that no other cell  *)
(* has a part in (an empty text, 2, 3, the text x, or the formula =( and   *)
(* its error marker), the five aggregate functions over every range of     *)
(* these cells, and the commit of a formula to a cell that is being edited *)
(***************************************************************************)
RangeCellIds == {A1, A2, A3}

EvalInputs == {T_SUM, T_AVG, T_COUNT, T_A1pA2}

\* the record of a cell after the commit of a text that is no formula
Plain(cellId, text) ==
    [id |-> cellId, value |-> Str(text), formula |-> <<>>, format |-> "", displayValue |-> Str(text)]

\* the record of a cell after the commit of =(
Failed(cellId) ==
    [id |-> cellId, value |-> ERROR, formula |-> T_open, format |-> "", displayValue |-> ERROR]

\* no record of the cell, or one of its records
Slot(cellId) ==
    {<<>>} \cup {<<Plain(cellId, text)>> : text \in {<<>>, T_2, T_3, T_x}} \cup {<<Failed(cellId)>>}

Stores == {s1 \o s2 \o s3 : s1 \in Slot(A1), s2 \in Slot(A2), s3 \in Slot(A3)}

InitEvaluate ==
    /\ data \in Stores
    /\ rows = defaultRows
    /\ cols = defaultCols
    /\ title = Untitled
    /\ currentFilePath = NoPath
    /\ stored = Absent
    /\ file = Absent
    /\ files = NoFiles
    /\ design = NoDesign
    /\ barFocus = FALSE
    /\ last = Last("initialize", NoCell, <<>>)
    /\ edits = 0
    /\ \/ /\ isEditing = FALSE
          /\ editor = NoCell
          /\ selectedCell = A1
          /\ \E pass \in DOMAIN Passes, start \in RangeCellIds, end \in RangeCellIds :
                call = [pc |-> "range", kind |-> Passes[pass].kind,
                        start |-> start, end |-> end, result |-> Null]
       \/ /\ isEditing = TRUE
          /\ editor \in RangeCellIds
          /\ selectedCell = editor
          /\ call = Idle

\* sumRange, avgRange, minRange, maxRange or countRange of start and end
Aggregate ==
    /\ call.pc = "range"
    /\ call' = [call EXCEPT !.pc = "aggregated",
                            !.result = aggregate(data, call.kind, call.start, call.end)]
    /\ UNCHANGED <<data, selectedCell, isEditing, editor, barFocus, last, edits, sheet, storage>>

NextEvaluate == Aggregate \/ FinishEditing(RangeCellIds, EvalInputs)

SpecEvaluate == InitEvaluate /\ [][NextEvaluate]_vars

(***************************************************************************)
(* The address codec on its own: getCellId on every address of the largest *)
(* grid, and parseCellId on its labels and on other texts                  *)
(***************************************************************************)
Labels ==
    { <<"A", "0">>,
      <<"A", "1">>,
      <<"a", "1">>,
      <<>>,
      <<"A">>,
      <<"7">>,
      <<"A", "B", "1", "2">>,
      <<"A", "0", "1">>,
      <<"Z", "Z", "0">>,
      <<"A", "1", "B">>,
      <<" ", "A", "1">>,
      <<"A", "Z", "1", "0", "0", "0">>,
      <<"A", "-", "1">>,
      <<"1", "A">> }

InitCodec ==
    /\ data = <<>>
    /\ rows = defaultRows
    /\ cols = defaultCols
    /\ title = Untitled
    /\ currentFilePath = NoPath
    /\ stored = Absent
    /\ file = Absent
    /\ files = NoFiles
    /\ design = NoDesign
    /\ selectedCell = A1
    /\ isEditing = FALSE
    /\ editor = NoCell
    /\ barFocus = FALSE
    /\ last = Last("initialize", NoCell, <<>>)
    /\ edits = 0
    /\ \/ \E row \in 0..(maxRows - 1), col \in 0..(maxCols - 1) :
            call = [pc |-> "address", row |-> row, col |-> col, label |-> NoCell, pos |-> Null]
       \/ \E label \in Labels :
            call = [pc |-> "label", row |-> 0, col |-> 0, label |-> label, pos |-> Null]

\* getCellId(row, col)
Encode ==
    /\ call.pc = "address"
    /\ call' = [call EXCEPT !.pc = "encoded", !.label = getCellId(call.row, call.col)]
    /\ UNCHANGED <<data, selectedCell, isEditing, editor, barFocus, last, edits, sheet, storage>>

\* parseCellId(cellId), of a label of getCellId or of another text
Decode ==
    /\ call.pc \in {"encoded", "label"}
    /\ call' = [call EXCEPT !.pc = IF call.pc = "encoded" THEN "roundtrip" ELSE "parsed",
                              !.pos = parseCellId(call.label)]
    /\ UNCHANGED <<data, selectedCell, isEditing, editor, barFocus, last, edits, sheet, storage>>

NextCodec == Encode \/ Decode

SpecCodec == InitCodec /\ [][NextCodec]_vars

(***************************************************************************)
(* Format runs: the text 0.5, a formula with the value 0.5 and a text that *)
(* is no number, under the three formats                                   *)
(***************************************************************************)
T_half == <<"0", ".", "5">>

T_1d2 == <<"=", "1", "/", "2">>

FormatCells == {A1, A2}

FormatInputs == {T_half, T_1d2, T_x}

AllFormats == {"number", "currency", "percent"}

NextFormat ==
    \/ SelectCell(FormatCells)
    \/ StartEditing
    \/ FinishEditing(FormatCells, FormatInputs)
    \/ CancelEditing
    \/ DeleteKey
    \/ TypeKey
    \/ FormulaFocus
    \/ FormulaEnter(FormatInputs)
    \/ ApplyFormat(AllFormats)

SpecFormat == Init /\ [][NextFormat]_vars

(***************************************************************************)
(* Load runs: the page starts on an item of localStorage and a file of the *)
(* filesystem that the page or another program has written, with or        *)
(* without a file parameter in its URL; cells are edited and formatted,    *)
(* and the page is loaded again                                            *)
(***************************************************************************)
FilePath == <<"/", "B", ".", "n", "u", "m", "b", "e", "r", "s">>

Paths == {NoPath, FilePath}

\* a snapshot with counts above the configured maximum
TooLarge ==
    Item("json", Str(<<"T">>), <<>>, Num(Int2Num(maxRows + 1)), Num(Int2Num(maxCols + 1)))

\* a snapshot with a negative row count and the column count 0
Negative == Item("json", Str(<<"T">>), <<>>, Num(Int2Num(-1)), Num(Int2Num(0)))

\* a snapshot that is an object without properties
Bare == Item("json", Undefined, <<>>, Undefined, Undefined)

\* the content of a new sheet of the file manager, without a title
NewFile == Item("json", Undefined, <<>>, Num(Int2Num(50)), Num(Int2Num(26)))

LoadItems == {Absent, Unparsable, NullItem, TooLarge, Negative, Bare}

LoadFiles == {Absent, NewFile, TooLarge}

LoadCells == {A1}

LoadInputs == {T_x, T_1d0}

LoadFormats == {"percent"}

InitLoad ==
    \E filePath \in Paths, saved \in LoadItems, f \in LoadFiles :
        /\ stored = saved
        /\ file = f
        /\ files = NoFiles
        /\ design = NoDesign
        /\ title = initialize(filePath, saved, f).title
        /\ data = initialize(filePath, saved, f).data
        /\ rows = initialize(filePath, saved, f).rows
        /\ cols = initialize(filePath, saved, f).cols
        /\ currentFilePath = initialize(filePath, saved, f).currentFilePath
        /\ selectedCell = A1
        /\ isEditing = FALSE
        /\ editor = NoCell
        /\ barFocus = FALSE
        /\ last = Last("initialize", filePath, <<>>)
        /\ edits = 0
        /\ call = Idle

NextLoad ==
    \/ StartEditing
    \/ FinishEditing(LoadCells, LoadInputs)
    \/ CancelEditing
    \/ DeleteKey
    \/ TypeKey
    \/ ApplyFormat(LoadFormats)
    \/ NewSheet
    \/ Reload(Paths)

SpecLoad == InitLoad /\ [][NextLoad]_vars

(***************************************************************************)
(* Resize runs: the counts start at or next to a bound, with the store of  *)
(* a sheet in which 5 was committed to B2 before rows and columns were     *)
(* deleted; rows and columns are added and deleted, and a formula that     *)
(* reads B2 is committed to A1                                             *)
(***************************************************************************)
B2 == <<"B", "2">>

T_B2p1 == <<"=", "B", "2", "+", "1">>

ResizeCells == {A1}

ResizeInputs == {T_B2p1}

InitResize ==
    /\ data = <<Plain(B2, T_5)>>
    /\ rows \in {1, 2, maxRows - 1, maxRows}
    /\ cols \in {1, 2, maxCols - 1, maxCols}
    /\ title = Untitled
    /\ currentFilePath = NoPath
    /\ stored = snapshot(Untitled, <<Plain(B2, T_5)>>, defaultRows, defaultCols)
    /\ file = Absent
    /\ files = NoFiles
    /\ design = NoDesign
    /\ selectedCell = A1
    /\ isEditing = FALSE
    /\ editor = NoCell
    /\ barFocus = FALSE
    /\ last = Last("initialize", NoCell, <<>>)
    /\ edits = 0
    /\ call = Idle

NextResize ==
    \/ AddRow
    \/ AddCol
    \/ DeleteRow
    \/ DeleteCol
    \/ StartEditing
    \/ FinishEditing(ResizeCells, ResizeInputs)

SpecResize == InitResize /\ [][NextResize]_vars

(***************************************************************************)
(* Export runs: a sheet of one or two rows and columns is loaded; texts    *)
(* and formulas are committed to A1 and B2, cells are formatted and        *)
(* cleared, and the sheet is exported                                      *)
(***************************************************************************)
T_quoted == <<"a", "\"", "b">>

T_eq0 == <<"=", "0">>

ExportCells == {A1, B2}

ExportInputs == {T_quoted, T_eq0, T_1d2}

ExportCounts == {1, 2}

InitExport ==
    /\ data = <<>>
    /\ rows \in ExportCounts
    /\ cols \in ExportCounts
    /\ title = Untitled
    /\ currentFilePath = NoPath
    /\ stored = snapshot(Untitled, <<>>, rows, cols)
    /\ file = Absent
    /\ files = NoFiles
    /\ design = NoDesign
    /\ selectedCell = A1
    /\ isEditing = FALSE
    /\ editor = NoCell
    /\ barFocus = FALSE
    /\ last = Last("initialize", NoPath, <<>>)
    /\ edits = 0
    /\ call = Idle

NextExport ==
    \/ SelectCell(ExportCells)
    \/ StartEditing
    \/ FinishEditing(ExportCells, ExportInputs)
    \/ DeleteKey
    \/ ApplyFormat(LoadFormats)
    \/ ExportCsv

SpecExport == InitExport /\ [][NextExport]_vars

(***************************************************************************)
(* Arithmetic runs: numbers, among them 0 and a negative one, were         *)
(* committed to A1 and A2, and A3 is selected; formulas over A1 and A2     *)
(* are committed to A3                                                     *)
(***************************************************************************)
T_0 == <<"0">>

T_m3 == <<"-", "3">>

T_A1mA2 == <<"=", "A", "1", "-", "A", "2">>

T_A1xA2 == <<"=", "A", "1", "*", "A", "2">>

T_A1d2 == <<"=", "A", "1", "/", "2">>

T_paren == <<"=", "(", "A", "1", "+", "A", "2", ")", "*", "2">>

T_2mA1 == <<"=", "2", "-", "A", "1">>

ArithValues == {T_0, T_2, T_5, T_m3}

ArithInputs == {T_A1pA2, T_A1mA2, T_A1xA2, T_A1d2, T_paren, T_2mA1}

ArithCells == {A3}

InitArith ==
    \E a \in ArithValues, b \in ArithValues :
        /\ data = <<Plain(A1, a), Plain(A2, b)>>
        /\ rows = defaultRows
        /\ cols = defaultCols
        /\ title = Untitled
        /\ currentFilePath = NoPath
        /\ stored = snapshot(Untitled, <<Plain(A1, a), Plain(A2, b)>>, defaultRows, defaultCols)
        /\ file = Absent
        /\ files = NoFiles
        /\ design = NoDesign
        /\ selectedCell = A3
        /\ isEditing = FALSE
        /\ editor = NoCell
        /\ barFocus = FALSE
        /\ last = Last("finishEditing", A2, b)
        /\ edits = 0
        /\ call = Idle

NextArith ==
    \/ StartEditing
    \/ FinishEditing(ArithCells, ArithInputs)

SpecArith == InitArith /\ [][NextArith]_vars

(***************************************************************************)
(* Pass runs: four commits of numbers and references, the first to A1 and  *)
(* the others to A1, A2, A3 and B1, have made the store, and a cell that   *)
(* has no record is selected; Delete on it runs a pass that nothing else   *)
(* precedes                                                                *)
(***************************************************************************)
T_A3 == <<"=", "A", "3">>

\* a cell no run stores
Unused == <<"C", "9">>

PassCells == {A1, A2, A3, B1}

PassInputs == {T_A2, T_A3, T_B1, T_5}

InitPasses ==
    \E c1 \in {A1}, c2 \in PassCells, c3 \in PassCells, c4 \in PassCells,
       v1 \in PassInputs, v2 \in PassInputs, v3 \in PassInputs, v4 \in PassInputs :
        /\ data = committed(committed(committed(committed(<<>>, c1, v1), c2, v2), c3, v3), c4, v4)
        /\ rows = defaultRows
        /\ cols = defaultCols
        /\ title = Untitled
        /\ currentFilePath = NoPath
        /\ stored = snapshot(Untitled, data, defaultRows, defaultCols)
        /\ file = Absent
        /\ files = NoFiles
        /\ design = NoDesign
        /\ selectedCell = Unused
        /\ isEditing = FALSE
        /\ editor = NoCell
        /\ barFocus = FALSE
        /\ last = Last("finishEditing", c4, v4)
        /\ edits = 0
        /\ call = Idle

NextPasses == DeleteKey

SpecPasses == InitPasses /\ [][NextPasses]_vars

(***************************************************************************)
(* Empty runs: the empty text and a number are committed to A1 and A2,     *)
(* keys are typed and edits cancelled, cells are cleared and formatted     *)
(***************************************************************************)
T_empty == <<>>

EmptyCells == {A1, A2}

EmptyInputs == {T_empty, T_5}

NextEmpty ==
    \/ SelectCell(EmptyCells)
    \/ StartEditing
    \/ FinishEditing(EmptyCells, EmptyInputs)
    \/ CancelEditing
    \/ DeleteKey
    \/ TypeKey
    \/ ApplyFormat(LoadFormats)

SpecEmpty == Init /\ [][NextEmpty]_vars

(***************************************************************************)
(* Own range runs: 2 and =SUM(A1:A2) are committed to A1 and A2, and       *)
(* Delete is pressed on these cells and on a cell that has no record       *)
(***************************************************************************)
OwnRangeCells == {A1, A2}

OwnRangeInputs == {T_2, T_SUM}

NextOwnRange ==
    \/ SelectCell(OwnRangeCells \cup {Unused})
    \/ StartEditing
    \/ FinishEditing(OwnRangeCells, OwnRangeInputs)
    \/ DeleteKey

SpecOwnRange == Init /\ [][NextOwnRange]_vars

(***************************************************************************)
(* File runs: the store has the root, the folder /a with the file /a/g and *)
(* the folder /a/c, the file /a/c/f and the folder /d; files and folders   *)
(* are created, saved, deleted, renamed and moved                          *)
(***************************************************************************)
FolderNames == {<<"b">>}

FileNames == {<<"f">>}

Contents == {<<"1">>, <<"2">>}

TreeFiles ==
    saveFile(saveFile(createFolder(createFolder(createFolder(createFolder(NoFiles, <<>>, <<>>),
                                                                <<"a">>, Root),
                                                   <<"c">>, <<"/", "a">>),
                                      <<"d">>, Root),
                      <<"g">>, <<"/", "a">>, <<"1">>),
             <<"f">>, <<"/", "a", "/", "c">>, <<"2">>)

InitFiles ==
    /\ files = TreeFiles
    /\ design = NoDesign
    /\ data = <<>>
    /\ selectedCell = A1
    /\ isEditing = FALSE
    /\ editor = NoCell
    /\ barFocus = FALSE
    /\ last = Last("saveFile", <<"/", "a", "/", "c">>, <<"f">>)
    /\ edits = 0
    /\ call = Idle
    /\ rows = defaultRows
    /\ cols = defaultCols
    /\ title = Untitled
    /\ currentFilePath = NoPath
    /\ stored = Absent
    /\ file = Absent

NextFiles ==
    \/ CreateFolder(FolderNames)
    \/ SaveFile(FileNames, Contents)
    \/ DeleteFile
    \/ RenameFile(FolderNames)
    \/ MoveFile

SpecFiles == InitFiles /\ [][NextFiles]_vars

(***************************************************************************)
(* Design runs: a table with two fields is open in the design view; the    *)
(* names of the field rows are changed, and the timeout fires when it is   *)
(* pending long enough                                                     *)
(***************************************************************************)
FieldNames == {<<"a">>, <<"b">>, <<"c">>}

InitDesign ==
    /\ design = [row |-> <<<<"a">>, <<"b">>>>, saved |-> <<<<"a">>, <<"b">>>>, fieldSaveTimeout |-> 0]
    /\ files = NoFiles
    /\ data = <<>>
    /\ selectedCell = A1
    /\ isEditing = FALSE
    /\ editor = NoCell
    /\ barFocus = FALSE
    /\ last = Last("initialize", NoCell, <<>>)
    /\ edits = 0
    /\ call = Idle
    /\ rows = defaultRows
    /\ cols = defaultCols
    /\ title = Untitled
    /\ currentFilePath = NoPath
    /\ stored = Absent
    /\ file = Absent

NextDesign == HandleFieldChange(FieldNames) \/ TimeoutFires

\* a pending timeout fires: the event loop runs its callback
SpecDesign == InitDesign /\ [][NextDesign]_vars /\ WF_vars(TimeoutFires)

(***************************************************************************)
(* What the properties speak of                                            *)
(***************************************************************************)
\* the handler that changed the store last ran a recalculation pass
AfterPass == last.op \in {"finishEditing", "delete"}

\* the value of the i-th cell is what the evaluator returns on the store d
Current(d, i) == d[i].value = evaluateFormula(d, d[i].formula, d[i].id)

\* the cells of the rectangle between two addresses, as a set
Rect(p, q) ==
    IF p = Null \/ q = Null THEN {}
    ELSE {getCellId(r, c) : r \in Min(p.row, q.row)..Max(p.row, q.row),
                            c \in Min(p.col, q.col)..Max(p.col, q.col)}

Rectangle(start, end) == Rect(parseCellId(start), parseCellId(end))

\* the cells whose records the evaluation of a formula reads: the cells of
\* the ranges of its aggregate calls, and its bare references other than the
\* one to the cell itself
RECURSIVE CallReads(_, _, _)
RECURSIVE CallRead(_, _, _, _)
CallRead(expr, i, pass, m) ==
    IF m.len > 0 THEN Rectangle(m.start, m.end) \cup CallReads(expr, i + m.len, pass)
    ELSE CallReads(expr, i + 1, pass)

CallReads(expr, i, pass) ==
    IF i > Len(expr) THEN {} ELSE CallRead(expr, i, pass, MatchAny(expr, i, pass.names, 1))

RECURSIVE RefReads(_, _, _)
RECURSIVE RefRead(_, _, _, _)
RefRead(expr, i, currentCell, len) ==
    IF len > 0
      THEN ({SubSeq(expr, i, i + len - 1)} \ {currentCell}) \cup RefReads(expr, i + len, currentCell)
      ELSE RefReads(expr, i + 1, currentCell)

RefReads(expr, i, currentCell) ==
    IF i > Len(expr) THEN {} ELSE RefRead(expr, i, currentCell, RefLen(expr, i))

RECURSIVE PassReads(_, _, _, _)
PassReads(d, expr, k, currentCell) ==
    IF k > Len(Passes) THEN RefReads(expr, 1, currentCell)
    ELSE CallReads(expr, 1, Passes[k])
         \cup PassReads(d, ReplaceCalls(d, expr, 1, Passes[k]), k + 1, currentCell)

Reads(d, formula, currentCell) == PassReads(d, ToUpperCase(Tail2(formula, 2)), 1, currentCell)

\* the formula cells from the i-th key on
FormulaCellsFrom(d, i) == {d[j].id : j \in {j \in i..Len(d) : d[j].formula # <<>>}}

\* the i-th cell reads no formula cell that the pass visits with it or after it
Settled(d, i) == Reads(d, d[i].formula, d[i].id) \cap FormulaCellsFrom(d, i) = {}

\* the store the pass has made when it visits the i-th key: the keys before
\* it as after the pass, the others as before the pass
Visited(before, after, i) == [j \in DOMAIN before |-> IF j < i THEN after[j] ELSE before[j]]

\* after is before with every formula cell evaluated once, in key order
OnePass(before, after) ==
    /\ Len(after) = Len(before)
    /\ \A i \in DOMAIN before :
          after[i] = IF before[i].formula # <<>>
                       THEN shown([before[i] EXCEPT !.value =
                               evaluateFormula(Visited(before, after, i),
                                               before[i].formula, before[i].id)])
                       ELSE before[i]

\* a cell that holds a number for an aggregate: a stored cell whose value is
\* a number or a text that starts with one
HoldsNumber(d, cellId) ==
    /\ Has(d, cellId)
    /\ \/ Get(d, cellId).value.k = "num"
       \/ Get(d, cellId).value.k = "str" /\ ~IsNaNNum(ParseFloatStr(Get(d, cellId).value.s))

NumericCells(d, cells) == {c \in cells : HoldsNumber(d, c)}

\* a cell that is missing, empty, a text or the error marker
WithoutNumber(d, cellId) ==
    ~Has(d, cellId) \/ Get(d, cellId).value \in {Str(<<>>), Str(T_x), ERROR}

Pick(S) == CHOOSE c \in S : TRUE

\* the sum of the numbers of a set of cells
RECURSIVE SetSum(_, _)
SetSum(d, S) ==
    IF S = {} THEN Int2Num(0)
    ELSE NumAdd(SetSum(d, S \ {Pick(S)}), parseFloat(Get(d, Pick(S)).value))

\* the text =X+1
SelfPlusOne(X) == <<"=">> \o X \o <<"+", "1">>

\* the text =NAME(start:end)
CallText(name, start, end) == <<"=">> \o name \o <<"(">> \o start \o <<":">> \o end \o <<")">>

(***************************************************************************)
(* Properties                                                              *)
(***************************************************************************)

\* C1 as stated: after a commit of an edit, a clear or a setFormat returns,
\* every stored formula cell has the value the evaluator returns for its
\* formula text on the store of that moment.
C1_Original ==
    last.op \in {"finishEditing", "delete", "applyFormat"} =>
        \A i \in DOMAIN data : data[i].formula # <<>> => Current(data, i)

\* C1, amended: after a commit of an edit or a clear returns, every stored
\* formula cell that reads no formula cell stored with it or after it in
\* insertion order (by a range, or by a bare reference other than to itself)
\* has the value the evaluator returns for its formula text on the store of
\* that moment.
C1_Amended ==
    AfterPass =>
        \A i \in DOMAIN data : (data[i].formula # <<>> /\ Settled(data, i)) => Current(data, i)

\* a commit has left 5 in a formula cell that reads a formula cell before it
C1_Witness ==
    /\ AfterPass
    /\ \E i \in DOMAIN data, j \in DOMAIN data :
          /\ j < i
          /\ data[j].formula # <<>>
          /\ data[i].formula # <<>>
          /\ data[j].id \in Reads(data, data[i].formula, data[i].id)
          /\ Settled(data, i)
          /\ data[i].value = Num(Int2Num(5))

\* C2: the pass after an edit or a clear evaluates every formula cell once,
\* in insertion order: each on the store in which the cells before it have
\* their new values and the cells from it on their previous ones.  No other
\* step changes the value of a stored cell, but for the key press that empties
\* it to start an edit: a stale value waits for a later pass.
C2_InsertionOrderPass ==
    [][/\ (last'.op = "finishEditing" /\ edits' = edits + 1) =>
              OnePass(assigned(data, last'.cell, last'.input), data')
       /\ (last'.op = "delete" /\ edits' = edits + 1) =>
              OnePass(Delete(data, last'.cell), data')
       /\ (edits' = edits \/ last'.op \notin {"finishEditing", "delete"}) =>
              \A i \in DOMAIN data :
                  /\ data'[i].formula = data[i].formula
                  /\ data'[i].value \in {data[i].value, Str(<<>>)}]_vars

\* right after the commit of 5, a formula cell a inserted before the formula
\* cell b it references holds 0, the previous value of b, and b holds 5
C2_Stale ==
    /\ last.op = "finishEditing"
    /\ last.input = T_5
    /\ \E a \in DOMAIN data, b \in DOMAIN data :
          /\ a < b
          /\ data[a].formula = <<"=">> \o data[b].id
          /\ data[b].formula = <<"=">> \o last.cell
          /\ data[b].value = Num(Int2Num(5))
          /\ data[a].value = Num(Int2Num(0))

\* C3: the evaluator returns 1 for =X+1 in the cell X (here the selected
\* cell, on every store), and after every pass a stored cell X with the
\* formula =X+1 holds 1 (not the error marker, and not a number that grows
\* from pass to pass).
C3_SelfReference ==
    /\ evaluateFormula(data, SelfPlusOne(selectedCell), selectedCell) = Num(Int2Num(1))
    /\ AfterPass =>
          \A i \in DOMAIN data :
              data[i].formula = SelfPlusOne(data[i].id) => data[i].value = Num(Int2Num(1))

\* A1 holds =A1+1 and 1 after a pass that the edit of another cell ran, and
\* another cell holds 2
C3_Witness ==
    /\ AfterPass
    /\ last.cell # A1
    /\ Has(data, A1)
    /\ Get(data, A1).formula = T_A1p1
    /\ Get(data, A1).value = Num(Int2Num(1))
    /\ \E i \in DOMAIN data : data[i].id # A1 /\ data[i].value = Num(Int2Num(2))

\* C4: over every range, SUM is the sum of the numbers of the cells of the
\* rectangle that hold one and COUNT is how many they are, so that a cell
\* that is missing, empty, a text or the error marker counts for nothing; 2
\* and 3 sum to 5, 2 and "x" to 2; and A3 holds that sum after the commit of
\* =SUM(A1:A2) to it.
C4_NumericCellsOnly ==
    /\ (call.pc = "aggregated" /\ call.kind = "SUM") =>
          /\ call.result = SetSum(data, NumericCells(data, Rectangle(call.start, call.end)))
          /\ (call.start = A1 /\ call.end = A2 /\ Has(data, A1) /\ Has(data, A2)
                  /\ Get(data, A1).value = Str(T_2)) =>
                /\ Get(data, A2).value = Str(T_3) => call.result = Int2Num(5)
                /\ Get(data, A2).value \in {Str(T_x), Str(<<>>), ERROR} =>
                      call.result = Int2Num(2)
    /\ (call.pc = "aggregated" /\ call.kind = "COUNT") =>
          /\ call.result
                = Int2Num(Cardinality(NumericCells(data, Rectangle(call.start, call.end))))
          /\ (call.start = call.end /\ WithoutNumber(data, call.start)) =>
                call.result = Int2Num(0)
    /\ (last.op = "finishEditing" /\ last.input = T_SUM /\ last.cell = A3) =>
          Get(data, A3).value = Num(SetSum(data, NumericCells(data, {A1, A2})))

\* A1 = 2, A2 = 3 and A3 holds 5 after the commit of =SUM(A1:A2)
C4_Witness ==
    /\ last.op = "finishEditing"
    /\ last.cell = A3
    /\ Has(data, A1) /\ Get(data, A1).value = Str(T_2)
    /\ Has(data, A2) /\ Get(data, A2).value = Str(T_3)
    /\ Get(data, A3).formula = T_SUM
    /\ Get(data, A3).value = Num(Int2Num(5))

\* C5: over every range that holds no number, each of the five aggregates is
\* 0 and the evaluator returns 0, not the error marker, for the formula that
\* is the call of it; and a cell holds 0 after the commit of =AVG(A1:A2) to
\* it when neither A1 nor A2 holds a number.
C5_EmptyRange ==
    /\ (call.pc = "aggregated"
            /\ NumericCells(data, Rectangle(call.start, call.end)) = {}) =>
          /\ call.result = Int2Num(0)
          /\ \A k \in DOMAIN Passes :
                Passes[k].kind = call.kind =>
                    \A n \in DOMAIN Passes[k].names :
                        evaluateFormula(data, CallText(Passes[k].names[n], call.start, call.end),
                                        Unused) = Num(Int2Num(0))
    /\ (last.op = "finishEditing" /\ last.input = T_AVG
            /\ NumericCells(data, {A1, A2}) = {}) =>
          Get(data, last.cell).value = Num(Int2Num(0))

\* A1 is the text x, A2 the error marker, and A3 holds 0 after the commit of
\* =AVG(A1:A2)
C5_Witness ==
    /\ last.op = "finishEditing"
    /\ last.cell = A3
    /\ Has(data, A1) /\ Get(data, A1).value = Str(T_x)
    /\ Has(data, A2) /\ Get(data, A2).value = ERROR
    /\ Get(data, A3).formula = T_AVG
    /\ Get(data, A3).value = Num(Int2Num(0))

\* C6: for every cell that is missing, empty, a text or the error marker, a
\* bare reference to it evaluates as 0 (=c+1 is 1) while a range leaves it
\* out (COUNT(c:c) is 0, not 1); and A3 holds 2, not the error marker, after
\* the commit of =A1+A2 to it when A1 is 2 and A2 is such a cell.
C6_ReferenceIsZero ==
    /\ \A c \in RangeCellIds \cup {Unused} :
          WithoutNumber(data, c) =>
              /\ evaluateFormula(data, SelfPlusOne(c), NoCell) = Num(Int2Num(1))
              /\ countRange(data, c, c) = Int2Num(0)
    /\ (last.op = "finishEditing" /\ last.input = T_A1pA2 /\ last.cell = A3
            /\ Has(data, A1) /\ Get(data, A1).value = Str(T_2)
            /\ WithoutNumber(data, A2)) =>
          Get(data, A3).value = Num(Int2Num(2))

\* A2 holds the error marker of =( and A3 holds 2 after the commit of =A1+A2
C6_Witness ==
    /\ last.op = "finishEditing"
    /\ last.cell = A3
    /\ Has(data, A1) /\ Get(data, A1).value = Str(T_2)
    /\ Has(data, A2) /\ Get(data, A2).formula = T_open /\ Get(data, A2).value = ERROR
    /\ Get(data, A3).formula = T_A1pA2
    /\ Get(data, A3).value = Num(Int2Num(2))

\* C7 as stated: no formula cell stores a number that is not finite (a
\* division by zero gives the error marker).
C7_NoNonFiniteValue ==
    \A i \in DOMAIN data :
        (data[i].formula # <<>> /\ data[i].value.k = "num") => IsFinite(data[i].value.x)

\* a cell with the formula =1/0 holds Infinity
C7_Infinity ==
    \E i \in DOMAIN data : data[i].formula = T_1d0 /\ data[i].value = Num(Inf(1))

\* C8: after the commit of a text that starts with =, the formula of the cell
\* is that text, character by character; and a formula cell that holds the
\* error marker keeps its formula text in every step but the commit of an
\* edit of that cell and the clear of that cell.
C8_FormulaKept ==
    /\ [](last.op = "finishEditing" /\ StartsWith(last.input, <<"=">>) =>
            Has(data, last.cell) /\ Get(data, last.cell).formula = last.input)
    /\ [][\A i \in DOMAIN data :
            (/\ data[i].formula # <<>>
             /\ data[i].value = ERROR
             /\ ~(/\ edits' = edits + 1
                  /\ last'.op \in {"finishEditing", "delete"}
                  /\ last'.cell = data[i].id)) =>
                /\ Has(data', data[i].id)
                /\ Get(data', data[i].id).formula = data[i].formula]_vars

\* a cell holds =a1+ as typed and the error marker after a pass that the edit
\* of another cell ran
C8_Witness ==
    /\ AfterPass
    /\ \E i \in DOMAIN data :
          /\ data[i].formula = T_a1p
          /\ data[i].value = ERROR
          /\ last.cell # data[i].id

\* C9: for every row below 1000 and column below 52, parseCellId of the
\* label of getCellId is that row and column; the label of column 0 is A, of
\* column 25 Z and of column 26 AA, followed by the row number from 1.
C9_RoundTrip ==
    /\ call.pc = "roundtrip" => call.pos = [col |-> call.col, row |-> call.row]
    /\ call.pc \in {"encoded", "roundtrip"} =>
          /\ call.col = 0 => call.label = <<"A">> \o NatToStr(call.row + 1)
          /\ call.col = 25 => call.label = <<"Z">> \o NatToStr(call.row + 1)
          /\ call.col = 26 => call.label = <<"A", "A">> \o NatToStr(call.row + 1)

\* the last address of the largest grid has gone through both functions
C9_Witness ==
    /\ call.pc = "roundtrip"
    /\ call.row = maxRows - 1
    /\ call.col = maxCols - 1
    /\ call.label = <<"A", "Z", "1", "0", "0", "0">>
    /\ call.pos = [col |-> 51, row |-> 999]

\* C10 as stated: parseCellId returns null or an address whose row and column
\* are not negative.
C10_NonNegative ==
    (call.pc = "parsed" /\ call.pos # Null) => (call.pos.row >= 0 /\ call.pos.col >= 0)

\* parseCellId of A0 is column 0, row -1
C10_RowMinusOne ==
    /\ call.pc = "parsed"
    /\ call.label = <<"A", "0">>
    /\ call.pos = [col |-> 0, row |-> -1]

\* the step is one of the handler op, which has changed the store
Ran(op) == last'.op = op /\ edits' = edits + 1

\* the text 50.0%
T_50pct == <<"5", "0", ".", "0", "%">>

\* C11: a format button changes only the format and the displayValue of the
\* selected cell: a cell without a record gets one, last in the store, with
\* an empty value and no formula; a cell with a record keeps its value and
\* its formula; every other record, the order of the records and the counts
\* stay as they are; and percent on a value that reads 0.5 shows 50.0%.
C11_SetFormatFrame ==
    [][Ran("applyFormat") =>
         /\ Len(data') = Len(data) + (IF Has(data, selectedCell) THEN 0 ELSE 1)
         /\ \A j \in DOMAIN data' :
               IF j \in DOMAIN data
                 THEN /\ data'[j].id = data[j].id
                      /\ data'[j].value = data[j].value
                      /\ data'[j].formula = data[j].formula
                      /\ data[j].id # selectedCell => data'[j] = data[j]
                 ELSE /\ data'[j].id = selectedCell
                      /\ data'[j].value = Str(<<>>)
                      /\ data'[j].formula = <<>>
         /\ \A j \in DOMAIN data' :
               (/\ data'[j].id = selectedCell
                /\ data'[j].format = "percent"
                /\ parseFloat(data'[j].value) = Fin(1, 1, 2)) => data'[j].displayValue = Str(T_50pct)
         /\ UNCHANGED <<rows, cols, selectedCell>>]_vars

\* percent has been set on a formula cell with the value 0.5 while another
\* cell is stored, and on a cell that had no record
C11_Witness ==
    /\ last.op = "applyFormat"
    /\ Len(data) = 2
    /\ data[1].formula = T_1d2
    /\ data[1].value = Num(Fin(1, 1, 2))
    /\ data[1].format = "percent"
    /\ data[1].displayValue = Str(T_50pct)
    /\ data[2] = [id |-> data[2].id, value |-> Str(<<>>), formula |-> <<>>,
                  format |-> "percent", displayValue |-> Str(<<>>)]

\* C12 as stated: in every state, the displayValue of each stored cell is the
\* formatter's output for the cell's value and format.
C12_DisplayCurrent ==
    \A i \in DOMAIN data : data[i].displayValue = formatValue(data[i].value, data[i].format)

\* a key was typed on a cell that held 0.5 and the edit was cancelled: the
\* value is empty and the displayValue is still 0.5
C12_StaleDisplay ==
    /\ last.op = "typeKey"
    /\ editor = NoCell
    /\ ~isEditing
    /\ \E i \in DOMAIN data :
          /\ data[i].id = last.cell
          /\ data[i].value = Str(<<>>)
          /\ data[i].format = ""
          /\ data[i].displayValue = Str(T_half)

\* C13 as stated: a stored cell without a formula holds the text of the last
\* commit to it, as a string: the commit of a text that does not start with =
\* stores that text as the cell's value and no formula, and no step other
\* than a commit to the cell changes the value of a cell that has no formula
\* before and after the step.
C13_PlainValueKept ==
    [][/\ (Ran("finishEditing") /\ ~StartsWith(last'.input, <<"=">>)) =>
            /\ Has(data', last'.cell)
            /\ Get(data', last'.cell).value = Str(last'.input)
            /\ Get(data', last'.cell).formula = <<>>
       /\ \A i \in DOMAIN data, j \in DOMAIN data' :
            (/\ data'[j].id = data[i].id
             /\ data[i].formula = <<>>
             /\ data'[j].formula = <<>>
             /\ ~(Ran("finishEditing") /\ last'.cell = data[i].id)) =>
                data'[j].value = data[i].value]_vars

\* the text x was committed to a cell, a key was typed on it and the edit
\* was cancelled: the cell has no formula and its value is empty
C13_Blanked ==
    /\ last.op = "typeKey"
    /\ editor = NoCell
    /\ ~isEditing
    /\ \E i \in DOMAIN data :
          /\ data[i].id = last.cell
          /\ data[i].formula = <<>>
          /\ data[i].value = Str(<<>>)
          /\ data[i].displayValue = Str(T_x)

\* the cells of the store e have the formula, value and format of those of d
SameCells(d, e) ==
    /\ Len(e) = Len(d)
    /\ \A i \in DOMAIN d :
          /\ e[i].id = d[i].id
          /\ e[i].formula = d[i].formula
          /\ e[i].value = d[i].value
          /\ e[i].format = d[i].format

\* C14 as stated: in every state, the snapshot that saveToLocalStorage writes
\* of the grid, restored by loadFromLocalStorage, has the rows, the cols and,
\* cell by cell, the formula, value and format of the grid.
C14_SnapshotRoundTrip ==
    /\ loadFromLocalStorage(Constructed, snapshot(title, data, rows, cols)).rows = rows
    /\ loadFromLocalStorage(Constructed, snapshot(title, data, rows, cols)).cols = cols
    /\ SameCells(data, loadFromLocalStorage(Constructed, snapshot(title, data, rows, cols)).data)

\* the page was loaded again after =1/0 was committed: the formula cell that
\* held Infinity holds null
C14_InfinityLost ==
    /\ last.op = "initialize"
    /\ last.cell = NoPath
    /\ \E i \in DOMAIN data :
          /\ data[i].formula = T_1d0
          /\ data[i].value = JsNull

\* C15 as stated: after a load, from localStorage or from the filesystem,
\* the row count is between 1 and maxRows and the column count between 1
\* and maxCols.
C15_CountsInBounds ==
    last.op = "initialize" => (rows \in 1..maxRows /\ cols \in 1..maxCols)

\* the page has loaded the localStorage snapshot with 1001 rows and 53
\* columns as it is
C15_OutOfBounds ==
    /\ last.op = "initialize"
    /\ last.cell = NoPath
    /\ stored = TooLarge
    /\ rows = maxRows + 1
    /\ cols = maxCols + 1

\* C16: after a load from a localStorage item that cannot be parsed, the
\* title, the counts, the cell store and the file path are those the page
\* had before the load, the state as constructed.
C16_UnparsableLeavesState ==
    (last.op = "initialize" /\ last.cell = NoPath /\ stored.item = "unparsable") =>
        Sheet(title, data, rows, cols, currentFilePath) = Constructed

\* the page was loaded again on the unparsable item after a key was typed
C16_Witness ==
    /\ last.op = "initialize"
    /\ last.cell = NoPath
    /\ stored = Unparsable
    /\ edits = 1
    /\ data = <<>>
    /\ title = Untitled

\* C17: from counts within the bounds, the row count stays between 1 and
\* maxRows and the column count between 1 and maxCols; an add at the maximum
\* and a delete at 1 leave the count where it is, any other add or delete
\* changes it by one.
C17_CountsClamped ==
    /\ [](rows \in 1..maxRows /\ cols \in 1..maxCols)
    /\ [][/\ Ran("addRow") => rows' = (IF rows = maxRows THEN maxRows ELSE rows + 1)
          /\ Ran("addCol") => cols' = (IF cols = maxCols THEN maxCols ELSE cols + 1)
          /\ Ran("deleteRow") => rows' = (IF rows = 1 THEN 1 ELSE rows - 1)
          /\ Ran("deleteCol") => cols' = (IF cols = 1 THEN 1 ELSE cols - 1)]_vars

\* a column was deleted from a grid of one column, which has one column
C17_Witness ==
    /\ last.op = "deleteCol"
    /\ last.input = <<"1">>
    /\ cols = 1

\* C18: an add or a delete of a row or a column leaves every cell record as
\* it is, and the commit of =B2+1 gives the value of B2 plus 1 also when B2
\* lies outside the grid.
C18_RecordsKept ==
    [][/\ (Ran("addRow") \/ Ran("addCol") \/ Ran("deleteRow") \/ Ran("deleteCol")) =>
            data' = data
       /\ (Ran("finishEditing") /\ last'.input = T_B2p1) =>
            /\ Has(data', B2)
            /\ Get(data', B2) = Get(data, B2)
            /\ Get(data', last'.cell).value =
                   Num(NumAdd(parseFloat(Get(data, B2).value), Int2Num(1)))]_vars

\* =B2+1 was committed to A1 in a grid of one row and one column, after a
\* row was deleted: A1 holds 6
C18_Witness ==
    /\ rows = 1
    /\ cols = 1
    /\ last.op = "finishEditing"
    /\ edits >= 2
    /\ Has(data, A1)
    /\ Get(data, A1).value = Num(Int2Num(6))
    /\ Get(data, B2).value = Str(T_5)

\* the text of a stored value, empty for a cell that the store lacks
StoredText(d, cellId) == IF Has(d, cellId) THEN ToStr(Get(d, cellId).value) ELSE <<>>

\* the fields of the columns c, c+1, ... of row r, each the stored value with
\* its quotes doubled and wrapped in quotes, separated by ;
RECURSIVE RenderedRow(_, _, _, _)
RenderedRow(d, r, c, cs) ==
    IF c >= cs THEN <<>>
    ELSE (IF c = 0 THEN <<>> ELSE <<";">>)
            \o <<"\"">> \o quotesDoubled(StoredText(d, getCellId(r, c))) \o <<"\"">>
            \o RenderedRow(d, r, c + 1, cs)

\* one line for each of the rows r, r+1, ...
RECURSIVE Rendered(_, _, _, _)
Rendered(d, r, rs, cs) ==
    IF r >= rs THEN <<>>
    ELSE RenderedRow(d, r, 0, cs) \o <<"\n">> \o Rendered(d, r + 1, rs, cs)

\* C19: the export has one line for each row of the grid and one field for
\* each column, in row-major order, and each field is the stored value of the
\* cell (empty for a cell that the store lacks) with its quotes doubled and
\* wrapped in quotes, for every stored value.
C19_ExportIsStoredValues ==
    [][Ran("exportCsv") => call'.csv = Rendered(data, 0, rows, cols)]_vars

\* =0 was committed to A1 and the sheet exported: the first field of the
\* export is empty although A1 stores 0
C19_ZeroExportedEmpty ==
    /\ last.op = "exportCsv"
    /\ call.pc = "exported"
    /\ Has(data, A1)
    /\ Get(data, A1).formula = T_eq0
    /\ Get(data, A1).value = Num(Int2Num(0))
    /\ SubSeq(call.csv, 1, 2) = <<"\"", "\"">>
    /\ call.csv # Rendered(data, 0, rows, cols)

\* the number that a reference to the cell denotes
Denoted(d, cellId) ==
    IF Has(d, cellId) THEN ZeroIfNaN(parseFloat(Get(d, cellId).value)) ELSE Int2Num(0)

\* the arithmetic value of a formula of ArithInputs over the store
Arithmetic(d, formula) ==
    IF formula = T_A1pA2 THEN NumAdd(Denoted(d, A1), Denoted(d, A2))
    ELSE IF formula = T_A1mA2 THEN NumSub(Denoted(d, A1), Denoted(d, A2))
    ELSE IF formula = T_A1xA2 THEN NumMul(Denoted(d, A1), Denoted(d, A2))
    ELSE IF formula = T_A1d2 THEN NumDiv(Denoted(d, A1), Int2Num(2))
    ELSE IF formula = T_paren THEN NumMul(NumAdd(Denoted(d, A1), Denoted(d, A2)), Int2Num(2))
    ELSE NumSub(Int2Num(2), Denoted(d, A1))

\* C20: the commit of a formula of bare references, literals and + - * / ( )
\* gives the cell the arithmetic value of the expression in which each
\* reference denotes the number of the referenced cell, whether that number
\* is positive, zero or negative.
C20_ArithmeticValue ==
    [][(Ran("finishEditing") /\ last'.cell = A3 /\ last'.input \in ArithInputs) =>
            Get(data', A3).value = Num(Arithmetic(data, last'.input))]_vars

\* A1 holds 5 and A2 holds -3, and =A1-A2 was committed to A3: A3 holds the
\* error marker, not 8
C20_NegativeOperandFails ==
    /\ last.op = "finishEditing"
    /\ last.input = T_A1mA2
    /\ edits >= 1
    /\ Get(data, A1).value = Str(T_5)
    /\ Get(data, A2).value = Str(T_m3)
    /\ Has(data, A3)
    /\ Get(data, A3).value = ERROR
    /\ Arithmetic(data, T_A1mA2) = Int2Num(8)

\* the cells that the formula of a cell reads; none for a cell without one
ReadBy(d, cellId) ==
    IF Has(d, cellId) /\ Get(d, cellId).formula # <<>>
      THEN Reads(d, Get(d, cellId).formula, cellId)
      ELSE {}

\* the cells that the cells of S read, directly or through at most k cells
RECURSIVE ReadThrough(_, _, _)
ReadThrough(d, S, k) ==
    IF k = 0 THEN S
    ELSE S \cup ReadThrough(d, UNION {ReadBy(d, c) : c \in S}, k - 1)

\* no formula cell reads itself, directly or through other cells
Acyclic(d) ==
    \A i \in DOMAIN d : d[i].id \notin ReadThrough(d, ReadBy(d, d[i].id), Len(d))

\* C21: in a store whose formula cells read one another without a cycle,
\* after as many passes with no other change as there are formula cells,
\* every formula cell has the value the evaluator returns on the store, and a
\* further pass changes nothing.
C21_PassesConverge ==
    (Acyclic(data) /\ edits >= Cardinality(FormulaCellsFrom(data, 1))) =>
        /\ \A i \in DOMAIN data : data[i].formula # <<>> => Current(data, i)
        /\ recalculateAll(data) = data

\* A1 reads A2, A2 reads A3 and A3 reads B1, stored in this order, and B1
\* holds 5: after three passes A1 holds 5
C21_Witness ==
    /\ Acyclic(data)
    /\ edits = 3
    /\ last.op = "delete"
    /\ Len(data) = 4
    /\ data[1].id = A1 /\ data[1].formula = T_A2
    /\ data[2].id = A2 /\ data[2].formula = T_A3
    /\ data[3].id = A3 /\ data[3].formula = T_B1
    /\ data[4].value = Str(T_5)
    /\ data[1].value = Num(Int2Num(5))

\* C22: the store holds a record only for a cell that is not empty or that
\* setFormat was applied to: while no editor is open, no record has the empty
\* text as its value, no formula and no format; so the commit of the empty
\* text to a cell without record, and a typed key that is never committed,
\* leave the cell without record.
C22_NoEmptyRecords ==
    editor = NoCell =>
        \A i \in DOMAIN data :
            data[i].value # Str(<<>>) \/ data[i].formula # <<>> \/ data[i].format # ""

\* the first step of the run after the edit started was the commit of the
\* empty text to A1: the store holds a record of A1 with the empty value
C22_EmptyRecordStored ==
    /\ last.op = "finishEditing"
    /\ last.cell = A1
    /\ last.input = T_empty
    /\ edits = 1
    /\ editor = NoCell
    /\ Has(data, A1)
    /\ Get(data, A1).value = Str(<<>>)
    /\ Get(data, A1).formula = <<>>
    /\ Get(data, A1).format = ""

\* C23: a pass gives a formula cell a value that does not depend on the
\* previous value of that cell, also when the cell lies in the range of one
\* of its own aggregate calls: a pass that follows a pass with no other
\* change to the store leaves the value of every formula cell that reads no
\* other formula cell as it was.
C23_OwnValueNotRead ==
    [][(Ran("delete") /\ ~Has(data, last'.cell) /\ AfterPass) =>
            \A i \in DOMAIN data :
                (/\ data[i].formula # <<>>
                 /\ (Reads(data, data[i].formula, data[i].id) \ {data[i].id})
                        \cap FormulaCellsFrom(data, 1) = {}) =>
                    data'[i].value = data[i].value]_vars

\* 2 was committed to A2 and =SUM(A1:A2) to A1, and Delete was pressed on a
\* cell without record: A1 holds 6
C23_SumGrows ==
    /\ last.op = "delete"
    /\ last.cell = Unused
    /\ edits = 3
    /\ Has(data, A1)
    /\ Has(data, A2)
    /\ Get(data, A2).value = Str(T_2)
    /\ Get(data, A1).formula = T_SUM
    /\ Get(data, A1).value = Num(Int2Num(6))

\* C24: the step that opens an inline editor (double click, Enter or a typed
\* key) and the Escape that closes it leave the store as it is: the same
\* records, with the same formula, value and format.
C24_CancelledEditKeepsStore ==
    [][(\/ editor = NoCell /\ editor' # NoCell
        \/ editor # NoCell /\ editor' = NoCell /\ edits' = edits) =>
            SameCells(data, data')]_vars

\* 5 was committed to A1, a key was typed on A1 and the edit was cancelled:
\* the value of A1 is empty
C24_ValueLost ==
    /\ last.op = "typeKey"
    /\ last.cell = A1
    /\ edits = 2
    /\ editor = NoCell
    /\ ~isEditing
    /\ Len(data) = 1
    /\ data[1].id = A1
    /\ data[1].value = Str(<<>>)
    /\ data[1].displayValue = Str(T_5)

\* C25: isEditing is true only while an inline editor is open or the formula
\* bar has the focus: in every state in which no editor is open and the
\* formula bar has not the focus, isEditing is false.
C25_EditingOnlyWhileOpen == (editor = NoCell /\ ~barFocus) => ~isEditing

\* the formula bar took the focus and another cell was clicked: no editor is
\* open, the formula bar has not the focus, and isEditing is true
C25_StuckEditing ==
    /\ editor = NoCell
    /\ ~barFocus
    /\ isEditing
    /\ selectedCell = A2
    /\ ~ENABLED StartEditing
    /\ ~ENABLED DeleteKey

\* C26: after a commit of an edit, a clear, a setFormat, or an add or a
\* delete of a row or a column, the item of localStorage is the snapshot of
\* the current state: the same rows, cols and cell records.
C26_StoredIsCurrent ==
    last.op \in {"finishEditing", "delete", "applyFormat",
                 "addRow", "addCol", "deleteRow", "deleteCol"} =>
        stored = snapshot(title, data, rows, cols)

\* =B2+1 was committed to A1 in a grid of two rows and a row was added: the
\* grid has three rows and the item of localStorage two
C26_StaleRows ==
    /\ last.op = "addRow"
    /\ edits = 2
    /\ rows = 3
    /\ stored.item = "json"
    /\ Count(stored.rows) = 2
    /\ stored.data = jsonData(data)

\* the records of the store below a path, at any depth
Below(S, path) == {x \in S : StartsWith(x.path, path \o <<"/">>)}

\* each record of S below oldPath has a record in T at the same place below
\* newPath, with the same type and content
KeptBelow(S, T, oldPath, newPath) ==
    \A x \in Below(S, oldPath) :
        \E y \in T :
            /\ y.path = newPath \o Tail2(x.path, Len(oldPath) + 1)
            /\ y.type = x.type
            /\ y.content = x.content

\* the store has no record at the path or below it
NoneAt(T, path) == ~stores(T, path) /\ Below(T, path) = {}

\* the record at the path is a folder
IsFolder(S, path) == stores(S, path) /\ getFile(S, path).type = "folder"

\* C27: renameFile on a folder, to another name, keeps every descendant: each
\* file or folder below the old path, at any depth, is below the new path
\* with the same content, and no entry remains at or below the old path.
C27_RenameKeepsDescendants ==
    [][(/\ Ran("renameFile")
        /\ IsFolder(files, last'.cell)
        /\ pathIn(getFile(files, last'.cell).parent, last'.input) # last'.cell) =>
            /\ KeptBelow(files, files', last'.cell,
                         pathIn(getFile(files, last'.cell).parent, last'.input))
            /\ NoneAt(files', last'.cell)]_vars

\* the folder /a was renamed to b: /b/g and the folder /b/c are stored, and
\* the file that was /a/c/f is stored neither there nor as /b/c/f
C27_GrandchildLost ==
    /\ last.op = "renameFile"
    /\ last.cell = <<"/", "a">>
    /\ last.input = <<"b">>
    /\ edits = 1
    /\ stores(files, <<"/", "b", "/", "g">>)
    /\ IsFolder(files, <<"/", "b", "/", "c">>)
    /\ ~stores(files, <<"/", "b", "/", "c", "/", "f">>)
    /\ ~stores(files, <<"/", "a", "/", "c", "/", "f">>)

\* C28: moveFile on a folder keeps its contents: each file or folder below
\* the source path is below the new path of the folder with the same
\* content, and the store has as many records as before.
C28_MoveKeepsContents ==
    [][(Ran("moveFile") /\ IsFolder(files, last'.cell)) =>
            /\ KeptBelow(files, files', last'.cell,
                         pathIn(last'.input, getFile(files, last'.cell).name))
            /\ Cardinality(files') = Cardinality(files)]_vars

\* the folder /a was moved to /d: /d/a is stored without anything below it,
\* and the store has three of its six records
C28_ContentsLost ==
    /\ last.op = "moveFile"
    /\ last.cell = <<"/", "a">>
    /\ last.input = <<"/", "d">>
    /\ edits = 1
    /\ IsFolder(files, <<"/", "d", "/", "a">>)
    /\ Below(files, <<"/", "d", "/", "a">>) = {}
    /\ Below(files, <<"/", "a">>) = {}
    /\ Cardinality(files) = 3

\* C29: after New sheet on a sheet that was opened from the filesystem, the
\* edits of the new sheet do not change the file that was opened: the step
\* that follows New sheet leaves the file as it is.
C29_NewSheetLeavesFile ==
    [][(last.op = "newSheet" /\ currentFilePath # NoPath) => file' = file]_vars

\* a file was opened, New sheet was chosen and a text was committed: the file
\* holds the new sheet, with its title and its one cell
C29_FileOverwritten ==
    /\ last.op = "finishEditing"
    /\ edits = 2
    /\ currentFilePath = FilePath
    /\ title = Untitled
    /\ Len(data) = 1
    /\ file = content(Untitled, data, rows, cols)
    /\ file # NewFile
    /\ file # TooLarge

\* C30: every change to a field row is saved in the end: a row whose name
\* differs from the saved name of its field has the saved name later on,
\* also when two rows are changed before the timeout fires.
C30_ChangesSaved ==
    \A r \in {1, 2} : (design.row[r] # design.saved[r]) ~> (design.row[r] = design.saved[r])

\* row 1 was changed to c and then row 2 to a before the timeout fired: no
\* timeout is pending, row 2 is saved and row 1 is not
C30_ChangeNeverSaved ==
    /\ design.fieldSaveTimeout = 0
    /\ design.row = <<<<"c">>, <<"a">>>>
    /\ design.saved = <<<<"a">>, <<"a">>>>
    /\ ~ENABLED TimeoutFires

=============================================================================
